---- MODULE Spec2Model ----
(***************************************************************************)
(* Entity lifecycle and referential-integrity layer of the ATS repository: *)
(* the mongoose schemas' pre-save / pre-deleteOne hooks (src/src/db/       *)
(* models.ts) and the route handlers that drive them.                      *)
(*                                                                         *)
(* The database is the variable db, a record with one field per            *)
(* collection, each a set of documents.  Documents are records; ObjectIds  *)
(* are strings.  A request handler is one action.  Inside a handler an     *)
(* operation bound to the handler's session works on the transaction's     *)
(* view and takes effect at commit; an operation issued without the        *)
(* session (every query made inside a schema hook is) reads and writes the *)
(* committed database at once and is not undone by an abort.               *)
(***************************************************************************)
EXTENDS Integers, Sequences, FiniteSets, TLC

VARIABLES
    db,        \* the committed database: collection name -> set of documents
    prev,      \* db as it was when the last request or save started
    resp,      \* outcome of the last request or save
    pending,   \* JobApplication saves whose pre-save hook passed, insert not yet done
    saveLog,   \* the Candidate status saves made so far, in order
    now,       \* the clock the handlers read with Date.now(), in hours
    issued     \* the verification codes hyperid has generated so far, in order

vars == <<db, prev, resp, pending, saveLog, now, issued>>

----------------------------------------------------------------------------
\* Bounds of the model

\* longest sequence of Candidate status saves that is recorded
MaxSaves == 4

\* number of fresh Job documents / JobApplication documents a run may save
MaxNewJobs == 2
MaxNewApplications == 3

----------------------------------------------------------------------------
\* Enumerations (src/src/db/models.ts:56-62, 77-83, 92-111)

CandidateStatus == {"applied", "shortlisted", "interviewed", "offered", "rejected"}

Permission == {"view_candidates", "edit_jobs", "manage_teams", "view_reports",
               "assign_interviews"}

Action == {"create", "update", "delete", "view", "assign"}

TargetType == {"user", "candidate", "job", "stage", "interview", "checklist",
               "note", "attachment", "team", "department"}

\* a member access the enum does not define (TargetType.HiringPipeline)
Undefined == "undefined"

\* "no value" for an optional reference field
NoRef == "none"

\* new mongoose.Types.ObjectId("000000000000000000000000"), the actor the
\* candidate handlers log with
PlaceholderActorId == "u000000000000000000000000"

\* the user id verifyAuth returns for every request with an Authorization header
MockUserId == "u60d5f4832f8fb814b56fa2b4"

----------------------------------------------------------------------------
\* The database

Collections == {"users", "roles", "credentials", "rolePermissions", "departments", "jobs", "jobSkills",
                "jobApplications", "referralTokens", "pipelines", "stages",
                "stageParticipants", "interviews", "interviewParticipants",
                "checklists", "candidates", "candidateSkills", "notes",
                "attachments", "teams", "activityLogs", "analyses"}

EmptyDB == [c \in Collections |-> {}]

\* Model.findById(id): the document with that _id, as a set of zero or one
FindById(d, coll, id) == {x \in d[coll] : x.id = id}

Exists(d, coll, id) == FindById(d, coll, id) # {}

\* Model.deleteMany(filter) / Model.deleteOne(filter) as query operations:
\* the matching documents are removed; no document middleware runs
DeleteWhere(d, coll, gone) == [d EXCEPT ![coll] = d[coll] \ gone]

Insert(d, coll, doc) == [d EXCEPT ![coll] = d[coll] \cup {doc}]

Replace(d, coll, old, new) == [d EXCEPT ![coll] = (d[coll] \ {old}) \cup {new}]

----------------------------------------------------------------------------
\* Responses

NoError == <<>>

\* doc: the document a save was called on, NoDoc for a request
NoDoc == <<>>

RespDoc(op, target, status, error, from, to, doc) ==
    [op |-> op, target |-> target, status |-> status, error |-> error,
     from |-> from, to |-> to, doc |-> doc]

Resp(op, target, status, error, from, to) ==
    RespDoc(op, target, status, error, from, to, NoDoc)

NoResp == Resp("none", NoRef, 0, NoError, NoRef, NoRef)

----------------------------------------------------------------------------
\* Documents, and the documents a seeded database holds

Cand(id, email, status) ==
    [id |-> id, email |-> email, status |-> status, referralTokenId |-> NoRef]

User(id, roleId) == [id |-> id, roleId |-> roleId]

JobDoc(id, departmentId, hiringManagerId, hiringPipelineId, minimumSalary, maximumSalary) ==
    [id |-> id, departmentId |-> departmentId, hiringManagerId |-> hiringManagerId,
     hiringPipelineId |-> hiringPipelineId, minimumSalary |-> minimumSalary,
     maximumSalary |-> maximumSalary]

Stage(id, pipelineId, name, mandatory, status) ==
    [id |-> id, pipelineId |-> pipelineId, name |-> name, mandatory |-> mandatory,
     status |-> status]

SeedUsers == {User(MockUserId, "r1"), User("u2", "r2")}

SeedJobs == {JobDoc("j1", "d1", MockUserId, "p1", 60, 80),
             JobDoc("j2", "d1", "u2", "p1", 60, 80),
             JobDoc("j3", "d2", MockUserId, "p2", 60, 80)}

\* a consistent database: every reference resolves, every unique index holds
SeedDB ==
    [EmptyDB EXCEPT
        !.users = SeedUsers,
        !.rolePermissions = {[roleId |-> "r1", permission |-> "edit_jobs"]},
        !.departments = {[id |-> "d1"], [id |-> "d2"]},
        !.pipelines = {[id |-> "p1", createdById |-> MockUserId],
                       [id |-> "p2", createdById |-> "u2"]},
        !.jobs = SeedJobs,
        !.jobSkills = {[jobId |-> "j1", skill |-> "k1"],
                       [jobId |-> "j3", skill |-> "k1"]},
        !.jobApplications = {[id |-> 1, candidateId |-> "c1", jobId |-> "j1"],
                             [id |-> 2, candidateId |-> "c2", jobId |-> "j2"]},
        !.referralTokens = {[id |-> "rt1", jobId |-> "j1", expired |-> FALSE]},
        !.stages = {Stage("st1", "p1", "Application", TRUE, "upcoming"),
                    Stage("st2", "p2", "Tech Interview", FALSE, "upcoming")},
        !.stageParticipants = {[candidateId |-> "c1", stageId |-> "st1"]},
        !.interviews = {[id |-> "iv1", candidateId |-> "c1", stageId |-> "st1"]},
        !.interviewParticipants = {[interviewId |-> "iv1", interviewerId |-> "u2"]},
        !.checklists = {[id |-> "ck1", interviewId |-> "iv1"]},
        !.candidates = {Cand("c1", "a@x", "applied"), Cand("c2", "b@x", "applied")},
        !.candidateSkills = {[candidateId |-> "c1", skill |-> "k1"]},
        !.notes = {[id |-> "n1", candidateId |-> "c1"]},
        !.attachments = {[id |-> "at1", candidateId |-> "c1"]}]

----------------------------------------------------------------------------
\* Candidate: status transitions (CandidateSchema.pre("save"))

validTransitions ==
    [s \in CandidateStatus |->
        CASE s = "applied"     -> {"shortlisted", "rejected"}
          [] s = "shortlisted" -> {"interviewed", "rejected"}
          [] s = "interviewed" -> {"offered", "rejected"}
          [] s = "offered"     -> {"rejected"}
          [] s = "rejected"    -> {}]

\* candidate.get("status", undefined, {getters: false}): Document.get returns
\* the value the path holds now, which at save time is the value just assigned
DocGetStatus(doc) == doc.status

\* ReferralToken.findOne({_id, expiresAt: {$gte: now}})
ReferralTokenValid(d, id) ==
    \E t \in d.referralTokens : t.id = id /\ ~t.expired

\* the error the hook passes to next(), NoError when it calls next() bare;
\* statusModified is candidate.isModified("status")
CandidatePreSave(d, doc, statusModified) ==
    IF doc.referralTokenId # NoRef /\ ~ReferralTokenValid(d, doc.referralTokenId)
    THEN <<"Invalid or expired referral token">>
    ELSE IF statusModified
         THEN LET previousStatus == DocGetStatus(doc)
              IN  IF /\ previousStatus \in DOMAIN validTransitions
                     /\ doc.status \notin validTransitions[previousStatus]
                  THEN <<"Invalid status transition", previousStatus, doc.status>>
                  ELSE NoError
         ELSE NoError

\* candidate.status = to; await candidate.save() on a document loaded from the
\* database.  Assigning the stored value leaves the path unmodified.
CandidateSave(c, to) ==
    /\ Len(saveLog) < MaxSaves
    /\ c \in db.candidates
    /\ LET doc == [c EXCEPT !.status = to]
           err == CandidatePreSave(db, doc, to # c.status)
           ok  == err = NoError
           db2 == IF ok THEN Replace(db, "candidates", c, doc) ELSE db
       IN  /\ db' = db2
           /\ prev' = db
           /\ resp' = Resp("CandidateSave", c.id, IF ok THEN 200 ELSE 500, err,
                           c.status, to)
           /\ saveLog' = Append(saveLog,
                  [id |-> c.id, from |-> c.status, to |-> to, ok |-> ok,
                   after |-> IF ok THEN to ELSE c.status])
    /\ UNCHANGED <<pending, now, issued>>

----------------------------------------------------------------------------
\* ActivityLog (ActivityLogSchema and its pre("save") hook)

\* modelMap of the hook: targetType -> the collection of the model it names
modelMap ==
    [t \in TargetType |->
        CASE t = "user"       -> "users"
          [] t = "candidate"  -> "candidates"
          [] t = "job"        -> "jobs"
          [] t = "stage"      -> "stages"
          [] t = "interview"  -> "interviews"
          [] t = "checklist"  -> "checklists"
          [] t = "note"       -> "notes"
          [] t = "attachment" -> "attachments"
          [] t = "team"       -> "teams"
          [] t = "department" -> "departments"]

Log(actorId, action, targetType, targetId) ==
    [actorId |-> actorId, action |-> action, targetType |-> targetType,
     targetId |-> targetId]

\* a log that is saved whatever it holds
ActivityLogPreSave_Lenient(d, log) == NoError

\* Schema validation, which mongoose runs before the schema's own pre("save")
\* hooks, then the hook.  The hook's lookups carry no session: they read the
\* committed database d whatever transaction the save itself belongs to.
ActivityLogPreSave(d, log) ==
    IF log.targetType \notin TargetType
    THEN <<"ActivityLog validation failed: targetType">>
    ELSE IF ~Exists(d, "users", log.actorId)
         THEN <<"Invalid actorId">>
         ELSE IF log.targetType \notin DOMAIN modelMap
              THEN <<"Invalid targetType", log.targetType>>
              ELSE IF ~Exists(d, modelMap[log.targetType], log.targetId)
                   THEN <<"Invalid targetId for targetType", log.targetType>>
                   ELSE NoError

----------------------------------------------------------------------------
\* Candidate route handlers (PUT and DELETE of a candidate by id)

Absent == "absent"

\* an optional array field: <<>> when the body does not carry it, <<S>> when
\* it carries the elements S
NoArray == <<>>
Array(S) == <<S>>

\* the parts of an update body the handler acts on: email, status, skills and
\* stageParticipation (the stage ids of its entries)
Body(email, status, skills, stages) ==
    [email |-> email, status |-> status, skills |-> skills, stages |-> stages]

\* PUT: Candidate.updateOne({_id}, {$set: updateFields}, {session}) is a query
\* operation: CandidateSchema.pre("save") does not run for it.
CandidatePUT(id, body) ==
    LET found == FindById(db, "candidates", id)
    IN  /\ prev' = db
        /\ UNCHANGED <<pending, saveLog, now, issued>>
        /\ IF found = {}
           THEN /\ db' = db
                /\ resp' = Resp("CandidatePUT", id, 404, <<"Candidate not found">>,
                                NoRef, body.status)
           ELSE
           LET candidate == CHOOSE x \in found : TRUE
               emailTaken ==
                   /\ body.email # Absent
                   /\ body.email # candidate.email
                   /\ \E x \in db.candidates : x.email = body.email /\ x.id # id
               \* $set of the fields the body carries
               updated ==
                   [candidate EXCEPT
                       !.email = IF body.email # Absent THEN body.email ELSE @,
                       !.status = IF body.status # Absent THEN body.status ELSE @]
               t1 == Replace(db, "candidates", candidate, updated)
               \* skills: deleteMany then insertMany, both in the session
               t2 == IF body.skills = NoArray THEN t1
                     ELSE [t1 EXCEPT !.candidateSkills =
                              {x \in @ : x.candidateId # id}
                              \cup {[candidateId |-> id, skill |-> k] : k \in body.skills[1]}]
               badStages == IF body.stages = NoArray THEN {}
                            ELSE {st \in body.stages[1] : ~Exists(t2, "stages", st)}
               \* stage participants: updateOne with upsert, in the session
               t3 == IF body.stages = NoArray THEN t2
                     ELSE [t2 EXCEPT !.stageParticipants =
                              @ \cup {[candidateId |-> id, stageId |-> st] :
                                          st \in body.stages[1]}]
               log == Log(PlaceholderActorId, "update", "candidate", id)
               logErr == ActivityLogPreSave(db, log)
               t4 == Insert(t3, "activityLogs", log)
           IN  IF emailTaken
               THEN /\ db' = db
                    /\ resp' = Resp("CandidatePUT", id, 409, <<"Email already in use">>,
                                    candidate.status, body.status)
               ELSE IF badStages # {}
               THEN /\ db' = db
                    /\ resp' = Resp("CandidatePUT", id, 400, <<"Invalid stage ID">>,
                                    candidate.status, body.status)
               ELSE IF logErr # NoError
               THEN \* the save throws, the catch block aborts the transaction
                    /\ db' = db
                    /\ resp' = Resp("CandidatePUT", id, 500, logErr,
                                    candidate.status, body.status)
               ELSE /\ db' = t4
                    /\ resp' = Resp("CandidatePUT", id, 200, NoError,
                                    candidate.status, body.status)

\* DELETE: Candidate.deleteOne({_id}).session(session) is a query operation:
\* the document middleware CandidateSchema.pre("deleteOne", {document: true,
\* query: false}) does not run for it.
CandidateDELETE(id) ==
    LET found == FindById(db, "candidates", id)
        t1 == DeleteWhere(db, "candidates", found)
        log == Log(PlaceholderActorId, "delete", "candidate", id)
        logErr == ActivityLogPreSave(db, log)
        t2 == Insert(t1, "activityLogs", log)
    IN  /\ prev' = db
        /\ UNCHANGED <<pending, saveLog, now, issued>>
        /\ IF found = {}
           THEN /\ db' = db
                /\ resp' = Resp("CandidateDELETE", id, 404, <<"Candidate not found">>,
                                NoRef, NoRef)
           ELSE IF logErr # NoError
           THEN /\ db' = db
                /\ resp' = Resp("CandidateDELETE", id, 500, logErr, NoRef, NoRef)
           ELSE /\ db' = t2
                /\ resp' = Resp("CandidateDELETE", id, 200, NoError, NoRef, NoRef)

----------------------------------------------------------------------------
\* Cascading deletes: the schemas' pre("deleteOne", {document: true, query:
\* false}) hooks.  Each runs only when deleteOne() is called on a document of
\* its own model; the deleteMany() calls inside a hook are query operations,
\* carry no session, and start no hook of the documents they remove.

\* DepartmentSchema.pre("deleteOne"): Job.deleteMany({departmentId: this._id})
DepartmentPreDeleteOne(d, id) ==
    DeleteWhere(d, "jobs", {j \in d.jobs : j.departmentId = id})

\* JobSchema.pre("deleteOne")
JobPreDeleteOne(d, id) ==
    LET d1 == DeleteWhere(d, "jobSkills", {x \in d.jobSkills : x.jobId = id})
        d2 == DeleteWhere(d1, "jobApplications",
                          {x \in d.jobApplications : x.jobId = id})
    IN  DeleteWhere(d2, "referralTokens", {x \in d.referralTokens : x.jobId = id})

\* HiringPipelineSchema.pre("deleteOne")
HiringPipelinePreDeleteOne(d, id) ==
    DeleteWhere(d, "stages", {x \in d.stages : x.pipelineId = id})

\* HiringStageSchema.pre("deleteOne")
HiringStagePreDeleteOne(d, id) ==
    LET d1 == DeleteWhere(d, "stageParticipants",
                          {x \in d.stageParticipants : x.stageId = id})
    IN  DeleteWhere(d1, "interviews", {x \in d.interviews : x.stageId = id})

\* InterviewSchema.pre("deleteOne")
InterviewPreDeleteOne(d, id) ==
    LET d1 == DeleteWhere(d, "interviewParticipants",
                          {x \in d.interviewParticipants : x.interviewId = id})
    IN  DeleteWhere(d1, "checklists", {x \in d.checklists : x.interviewId = id})

\* CandidateSchema.pre("deleteOne")
CandidatePreDeleteOne(d, id) ==
    LET deps == {"jobApplications", "candidateSkills", "stageParticipants",
                 "interviews", "notes", "attachments"}
    IN  [c \in DOMAIN d |->
            IF c \in deps THEN {x \in d[c] : x.candidateId # id} ELSE d[c]]

PreDeleteOne(coll, d, id) ==
    CASE coll = "departments" -> DepartmentPreDeleteOne(d, id)
      [] coll = "jobs"        -> JobPreDeleteOne(d, id)
      [] coll = "pipelines"   -> HiringPipelinePreDeleteOne(d, id)
      [] coll = "stages"      -> HiringStagePreDeleteOne(d, id)
      [] coll = "interviews"  -> InterviewPreDeleteOne(d, id)
      [] coll = "candidates"  -> CandidatePreDeleteOne(d, id)

HookedCollections == {"departments", "jobs", "pipelines", "stages", "interviews",
                      "candidates"}

\* await doc.deleteOne() on a document of one of the models above: the hook,
\* then the removal of the document itself
DocumentDeleteOne(coll, doc) ==
    /\ coll \in HookedCollections
    /\ doc \in db[coll]
    /\ db' = DeleteWhere(PreDeleteOne(coll, db, doc.id), coll, {doc})
    /\ prev' = db
    /\ resp' = Resp("DocumentDeleteOne", doc.id, 200, NoError, coll, NoRef)
    /\ UNCHANGED <<pending, saveLog, now, issued>>

----------------------------------------------------------------------------
\* Department, pipeline and job delete handlers

NoUser == "nouser"
NotAnId == "not-an-id"

isValidObjectId(id) == id # NotAnId

\* hasPermission (department and pipeline [id] routes)
hasPermission(d, userId, permission) ==
    \E u \in d.users :
        /\ u.id = userId
        /\ \E rp \in d.rolePermissions :
               rp.roleId = u.roleId /\ rp.permission = permission

\* the guards the department and pipeline handlers share: NoError when the
\* request passes them, else <<status, message>>
Guard(user, id) ==
    IF user = NoUser THEN <<401, "Unauthorized">>
    ELSE IF ~hasPermission(db, user, "edit_jobs")
         THEN <<403, "Forbidden: Insufficient permissions">>
         ELSE IF ~isValidObjectId(id) THEN <<400, "Invalid ID format">>
              ELSE NoError

\* A write without a session that meets documents an open transaction has
\* written waits until that transaction ends.  The handler awaits the write
\* before it commits, so the transaction ends only when the server expires it:
\* it is aborted, the write then applies to the committed data, and the
\* handler's next operation in the session fails.
TransactionExpired == <<"Transaction has been aborted">>

\* failAt: 0 no database failure, 1 the first write in the session fails,
\* 2 the hook's deleteMany fails, 3 the delete of the parent or the commit fails
DatabaseError == <<"Database error">>

\* DELETE department: jobs are removed by Job.deleteOne({_id}).session(session),
\* a query operation; then department.deleteOne() runs DepartmentSchema's hook
DepartmentDELETE(user, deptId, failAt) ==
    LET g == Guard(user, deptId)
        found == FindById(db, "departments", deptId)
        jobs == {j \in db.jobs : j.departmentId = deptId}
        t1 == DeleteWhere(db, "jobs", jobs)             \* in the transaction
        hooked == DepartmentPreDeleteOne(db, deptId)    \* outside it
        t2 == DeleteWhere(t1, "departments", found)
        R(status, error) == Resp("DepartmentDELETE", deptId, status, error, NoRef, NoRef)
    IN  /\ prev' = db
        /\ UNCHANGED <<pending, saveLog, now, issued>>
        /\ IF g # NoError THEN db' = db /\ resp' = R(g[1], <<g[2]>>)
           ELSE IF found = {}
           THEN db' = db /\ resp' = R(404, <<"Department not found">>)
           ELSE IF failAt \in {1, 2}
           THEN db' = db /\ resp' = R(500, DatabaseError)
           ELSE IF jobs # {}
           THEN db' = hooked /\ resp' = R(500, TransactionExpired)
           ELSE IF failAt = 3
           THEN db' = db /\ resp' = R(500, DatabaseError)
           ELSE db' = t2 /\ resp' = R(200, NoError)

\* DELETE pipeline: per stage HiringStage.deleteOne({_id}).session(session) and
\* an ActivityLog.create without session; then pipeline.deleteOne() and a last
\* ActivityLog.create.  Every log is built with TargetType.HiringPipeline.
PipelineDELETE(user, pipeId, failAt) ==
    LET g == Guard(user, pipeId)
        found == FindById(db, "pipelines", pipeId)
        stages == {x \in db.stages : x.pipelineId = pipeId}
        stageLogs == {Log(user, "delete", Undefined, x.id) : x \in stages}
        stageLogErrs == {ActivityLogPreSave(db, l) : l \in stageLogs} \ {NoError}
        t1 == DeleteWhere(db, "stages", stages)         \* in the transaction
        \* the stage logs are saved outside the transaction
        logged == [db EXCEPT !.activityLogs = @ \cup stageLogs]
        hooked == HiringPipelinePreDeleteOne(logged, pipeId)
        pipeLog == Log(user, "delete", Undefined, pipeId)
        pipeLogErr == ActivityLogPreSave(hooked, pipeLog)
        t2 == DeleteWhere(DeleteWhere(Insert(hooked, "activityLogs", pipeLog),
                                      "stages", stages), "pipelines", found)
        R(status, error) == Resp("PipelineDELETE", pipeId, status, error, NoRef, NoRef)
    IN  /\ prev' = db
        /\ UNCHANGED <<pending, saveLog, now, issued>>
        /\ IF g # NoError THEN db' = db /\ resp' = R(g[1], <<g[2]>>)
           ELSE IF found = {}
           THEN db' = db /\ resp' = R(404, <<"Pipeline not found">>)
           ELSE IF failAt = 1
           THEN db' = db /\ resp' = R(500, DatabaseError)
           ELSE IF stageLogErrs # {}
           THEN db' = db /\ resp' = R(500, CHOOSE e \in stageLogErrs : TRUE)
           ELSE IF failAt = 2
           THEN db' = logged /\ resp' = R(500, DatabaseError)
           ELSE IF stages # {}
           THEN db' = hooked /\ resp' = R(500, TransactionExpired)
           ELSE IF failAt = 3
           THEN db' = hooked /\ resp' = R(500, DatabaseError)
           ELSE IF pipeLogErr # NoError
           THEN db' = hooked /\ resp' = R(500, pipeLogErr)
           ELSE db' = t2 /\ resp' = R(200, NoError)

\* DELETE job: Job.findOneAndDelete({_id, hiringManagerId}) then
\* JobSkill.deleteMany({jobId}); no transaction.  failAt: 1 the first, 2 the
\* second of these fails.
JobDELETE(authHeader, id, failAt) ==
    LET found == {j \in db.jobs : j.id = id /\ j.hiringManagerId = MockUserId}
        d1 == DeleteWhere(db, "jobs", found)
        d2 == DeleteWhere(d1, "jobSkills", {x \in d1.jobSkills : x.jobId = id})
        R(status, error) == Resp("JobDELETE", id, status, error, NoRef, NoRef)
    IN  /\ prev' = db
        /\ UNCHANGED <<pending, saveLog, now, issued>>
        /\ IF ~authHeader THEN db' = db /\ resp' = R(500, <<"Unauthorized">>)
           ELSE IF ~isValidObjectId(id)
           THEN db' = db /\ resp' = R(400, <<"Invalid Job ID">>)
           ELSE IF failAt = 1 THEN db' = db /\ resp' = R(500, DatabaseError)
           ELSE IF found = {}
           THEN db' = db /\ resp' = R(404, <<"Job not found or unauthorized">>)
           ELSE IF failAt = 2 THEN db' = d1 /\ resp' = R(500, DatabaseError)
           ELSE db' = d2 /\ resp' = R(200, NoError)

----------------------------------------------------------------------------
\* Saving a Job or a JobApplication (JobSchema / JobApplicationSchema)

Invalid(fieldName) == <<"Invalid", fieldName>>

\* maximumSalary's validator: value >= this.minimumSalary.  mongoose validates
\* a document before it runs the schema's pre("save") hooks.
JobValidate(job) ==
    IF job.maximumSalary >= job.minimumSalary THEN NoError
    ELSE <<"maximumSalary must be greater than or equal to minimumSalary">>

\* a hook that forgets to look the pipeline up
JobPreSave_NoPipelineCheck(d, job) ==
    IF ~Exists(d, "departments", job.departmentId) THEN Invalid("departmentId")
    ELSE IF ~Exists(d, "users", job.hiringManagerId) THEN Invalid("hiringManagerId")
    ELSE NoError

\* JobSchema.pre("save")
JobPreSave(d, job) ==
    IF ~Exists(d, "departments", job.departmentId) THEN Invalid("departmentId")
    ELSE IF ~Exists(d, "users", job.hiringManagerId) THEN Invalid("hiringManagerId")
    ELSE IF ~Exists(d, "pipelines", job.hiringPipelineId)
         THEN Invalid("hiringPipelineId")
         ELSE NoError

NewJobId(d) == "jn" \o ToString(Cardinality(d.jobs) + 1)

\* await new Job({...}).save()
JobSave(departmentId, hiringManagerId, hiringPipelineId, minimumSalary, maximumSalary) ==
    LET job == [id |-> NewJobId(db), departmentId |-> departmentId,
                hiringManagerId |-> hiringManagerId,
                hiringPipelineId |-> hiringPipelineId,
                minimumSalary |-> minimumSalary, maximumSalary |-> maximumSalary]
        invalid == JobValidate(job)
        err == IF invalid # NoError THEN invalid ELSE JobPreSave(db, job)
    IN  /\ Cardinality(db.jobs) < Cardinality(SeedJobs) + MaxNewJobs
        /\ prev' = db
        /\ db' = IF err = NoError THEN Insert(db, "jobs", job) ELSE db
        /\ resp' = RespDoc("JobSave", job.id, IF err = NoError THEN 200 ELSE 500,
                           err, NoRef, NoRef, job)
        /\ UNCHANGED <<pending, saveLog, now, issued>>

AlreadyApplied == <<"Candidate has already applied to this job">>

\* the server's answer to an insert that breaks the unique index
\* {candidateId: 1, jobId: 1}
DuplicateKey == <<"E11000 duplicate key error">>

SamePair(a, b) == a.candidateId = b.candidateId /\ a.jobId = b.jobId

\* JobApplicationSchema.pre("save")
JobApplicationPreSave(d, application) ==
    IF ~Exists(d, "candidates", application.candidateId) THEN Invalid("candidateId")
    ELSE IF ~Exists(d, "jobs", application.jobId) THEN Invalid("jobId")
    ELSE IF \E x \in d.jobApplications : SamePair(x, application)
         THEN AlreadyApplied
         ELSE NoError

\* a collection without the unique index
JobApplicationInsertError_NoUniqueIndex(d, application) == NoError

\* the insert of a saved document into the collection, under its unique index
JobApplicationInsertError(d, application) ==
    IF \E x \in d.jobApplications : SamePair(x, application)
    THEN DuplicateKey
    ELSE NoError

NewApplicationId ==
    LET used == {x.id : x \in db.jobApplications \cup pending}
    IN  IF used = {} THEN 1 ELSE 1 + CHOOSE m \in used : \A n \in used : n <= m

\* await new JobApplication({...}).save(), first part: the pre("save") hook.
\* The hook and the insert are separate round trips to the database, so other
\* saves may run between them.
JobApplicationSaveHook(candidateId, jobId) ==
    LET application == [id |-> NewApplicationId, candidateId |-> candidateId,
                        jobId |-> jobId]
        err == JobApplicationPreSave(db, application)
    IN  /\ Cardinality(db.jobApplications) + Cardinality(pending)
              < Cardinality(SeedDB.jobApplications) + MaxNewApplications
        /\ prev' = db
        /\ db' = db
        /\ pending' = IF err = NoError THEN pending \cup {application} ELSE pending
        /\ resp' = RespDoc("JobApplicationSaveHook", NoRef,
                           IF err = NoError THEN 0 ELSE 500, err, NoRef, NoRef,
                           application)
        /\ UNCHANGED <<saveLog, now, issued>>

\* second part: the insert
JobApplicationSaveInsert(application) ==
    LET err == JobApplicationInsertError(db, application)
    IN  /\ application \in pending
        /\ prev' = db
        /\ db' = IF err = NoError THEN Insert(db, "jobApplications", application) ELSE db
        /\ pending' = pending \ {application}
        /\ resp' = RespDoc("JobApplicationSaveInsert", NoRef,
                           IF err = NoError THEN 200 ELSE 500, err, NoRef, NoRef,
                           application)
        /\ UNCHANGED <<saveLog, now, issued>>

----------------------------------------------------------------------------
\* The specifications: initial databases and the requests made on them

\* the user collection with or without a document under the placeholder id
UserSeeds == {SeedUsers, SeedUsers \cup {User(PlaceholderActorId, "r2")}}

\* SpecCandidate: the candidate update and delete handlers on a seeded database
CandidateIds == {"c1", "c9"}

Bodies ==
    {Body(Absent, st, NoArray, NoArray) : st \in CandidateStatus \cup {Absent}}
    \cup {Body(e, Absent, NoArray, NoArray) : e \in {"b@x", "z@x"}}
    \cup {Body(Absent, Absent, Array(k), NoArray) : k \in {{}, {"k2"}}}
    \cup {Body(Absent, Absent, NoArray, Array(st)) : st \in {{"st2"}, {"st9"}}}

InitCandidate ==
    /\ \E us \in UserSeeds, s \in CandidateStatus :
          db = [SeedDB EXCEPT
                   !.users = us,
                   !.candidates = {Cand("c1", "a@x", s), Cand("c2", "b@x", "applied")}]
    /\ prev = db
    /\ resp = NoResp
    /\ pending = {}
    /\ saveLog = <<>>
    /\ now = 0
    /\ issued = <<>>

NextCandidate ==
    \/ \E id \in CandidateIds, body \in Bodies : CandidatePUT(id, body)
    \/ \E id \in CandidateIds : CandidateDELETE(id)

SpecCandidate == InitCandidate /\ [][NextCandidate]_vars

\* SpecDelete: the delete handlers and the documents' deleteOne() on a seeded
\* database that also holds a department without jobs and a pipeline without
\* stages
DeleteSeedDB ==
    [SeedDB EXCEPT
        !.departments = {[id |-> "d1"], [id |-> "d3"]},
        !.pipelines = {[id |-> "p1", createdById |-> MockUserId],
                       [id |-> "p3", createdById |-> MockUserId]},
        !.jobs = {j \in @ : j.departmentId = "d1"},
        !.jobSkills = {x \in @ : x.jobId = "j1"},
        !.stages = {x \in @ : x.pipelineId = "p1"}]

SessionUsers == {NoUser, MockUserId, "u2"}
DepartmentIds == {"d1", "d3", NotAnId}
PipelineIds == {"p1", "p3", NotAnId}
JobIds == {"j1", "j2", NotAnId}
FailPoints == 0..3

InitDelete ==
    /\ db = DeleteSeedDB
    /\ prev = db
    /\ resp = NoResp
    /\ pending = {}
    /\ saveLog = <<>>
    /\ now = 0
    /\ issued = <<>>

NextDelete ==
    \/ \E u \in SessionUsers, id \in DepartmentIds, f \in FailPoints :
          DepartmentDELETE(u, id, f)
    \/ \E u \in SessionUsers, id \in PipelineIds, f \in FailPoints :
          PipelineDELETE(u, id, f)
    \/ \E h \in BOOLEAN, id \in JobIds, f \in 0..2 : JobDELETE(h, id, f)
    \/ \E coll \in HookedCollections \ {"candidates"} : \E doc \in db[coll] :
          DocumentDeleteOne(coll, doc)

SpecDelete == InitDelete /\ [][NextDelete]_vars

\* SpecSave: saves of new Job and JobApplication documents on the seeded
\* database; JobApplication saves may interleave
SaveSalaries == {<<60, 80>>, <<80, 60>>}

InitSave ==
    /\ db = SeedDB
    /\ prev = db
    /\ resp = NoResp
    /\ pending = {}
    /\ saveLog = <<>>
    /\ now = 0
    /\ issued = <<>>

NextSave ==
    \/ \E d \in {"d1", "d9"}, u \in {MockUserId, "u9"}, p \in {"p1", "p9"},
          sal \in SaveSalaries : JobSave(d, u, p, sal[1], sal[2])
    \/ \E c \in {"c1", "c2", "c9"}, j \in {"j1", "j9"} : JobApplicationSaveHook(c, j)
    \/ \E a \in pending : JobApplicationSaveInsert(a)

SpecSave == InitSave /\ [][NextSave]_vars

\* SpecSaves: one stored candidate, in any status, and a sequence of saves
InitSaves ==
    /\ \E s \in CandidateStatus :
          db = [EmptyDB EXCEPT !.candidates = {Cand("c1", "a@x", s)}]
    /\ prev = db
    /\ resp = NoResp
    /\ pending = {}
    /\ saveLog = <<>>
    /\ now = 0
    /\ issued = <<>>

NextSaves == \E c \in db.candidates, to \in CandidateStatus : CandidateSave(c, to)

SpecSaves == InitSaves /\ [][NextSaves]_vars

----------------------------------------------------------------------------
\* C1: saving a Candidate whose status changes from the stored value `from` to
\* a value `to` along a pair that is not an edge of the transition table fails
\* with "Invalid status transition from <from> to <to>", and the stored status
\* stays `from`.
AllowedEdges ==
    {<<"applied", "shortlisted">>, <<"applied", "rejected">>,
     <<"shortlisted", "interviewed">>, <<"shortlisted", "rejected">>,
     <<"interviewed", "offered">>, <<"interviewed", "rejected">>,
     <<"offered", "rejected">>}

StoredStatus(id) == {x.status : x \in FindById(db, "candidates", id)}

C1_InvalidTransitionFailsWithMessage ==
    (/\ resp.op = "CandidateSave"
     /\ resp.to # resp.from
     /\ <<resp.from, resp.to>> \notin AllowedEdges)
    => /\ resp.error = <<"Invalid status transition", resp.from, resp.to>>
       /\ StoredStatus(resp.target) = {resp.from}

\* C2: from a stored status Applied, the saves Shortlisted, Offered,
\* Interviewed, Offered are accepted, rejected, accepted, accepted, the stored
\* status is Shortlisted after the rejected save and Offered at the end.
ScenarioSaves == <<"shortlisted", "offered", "interviewed", "offered">>
ScenarioAccepted == <<TRUE, FALSE, TRUE, TRUE>>
ScenarioStored == <<"shortlisted", "shortlisted", "interviewed", "offered">>

C2_ScenarioOutcome ==
    \A n \in 1..Len(ScenarioSaves) :
        (/\ Len(saveLog) >= n
         /\ saveLog[1].from = "applied"
         /\ \A i \in 1..n : saveLog[i].to = ScenarioSaves[i])
        => /\ saveLog[n].ok = ScenarioAccepted[n]
           /\ saveLog[n].after = ScenarioStored[n]

\* C3: a candidate update request (PUT) that sets status to a value that is not
\* the target of an edge of the transition table from the stored status is
\* rejected and leaves the stored status as it was; a candidate whose stored
\* status is Rejected keeps it after any update request.
C3_PutRejectsInvalidTransition ==
    (/\ resp.op = "CandidatePUT"
     /\ resp.from \in CandidateStatus
     /\ resp.to \in CandidateStatus
     /\ resp.to # resp.from
     /\ <<resp.from, resp.to>> \notin AllowedEdges)
    => /\ resp.status # 200
       /\ StoredStatus(resp.target) = {resp.from}

\* C5: after a Candidate is deleted through the candidate delete handler, no
\* JobApplication, CandidateSkill, StageParticipant, Interview, Note or
\* Attachment with that candidateId remains.
CandidateDependents(d, id) ==
    [c \in {"jobApplications", "candidateSkills", "stageParticipants",
            "interviews", "notes", "attachments"} |->
        {x \in d[c] : x.candidateId = id}]

C5_CandidateDeleteCascades ==
    (resp.op = "CandidateDELETE" /\ resp.status = 200)
    => /\ ~Exists(db, "candidates", resp.target)
       /\ \A c \in DOMAIN CandidateDependents(db, resp.target) :
              CandidateDependents(db, resp.target)[c] = {}

\* C4: after a Department with N >= 0 Jobs is deleted (by the department delete
\* handler or by deleting the Department document), no Job with that
\* departmentId remains, and no JobSkill, JobApplication or ReferralToken
\* remains whose jobId is one of those Jobs.
NoJobDependents(d, jobIds) ==
    /\ {x \in d.jobSkills : x.jobId \in jobIds} = {}
    /\ {x \in d.jobApplications : x.jobId \in jobIds} = {}
    /\ {x \in d.referralTokens : x.jobId \in jobIds} = {}

DeletedDocument(coll, handler) ==
    /\ resp.status = 200
    /\ \/ resp.op = handler
       \/ resp.op = "DocumentDeleteOne" /\ resp.from = coll
    /\ Exists(prev, coll, resp.target)

C4_DepartmentDeleteCascades ==
    DeletedDocument("departments", "DepartmentDELETE")
    => /\ ~Exists(db, "departments", resp.target)
       /\ {j \in db.jobs : j.departmentId = resp.target} = {}
       /\ NoJobDependents(db, {j.id : j \in {x \in prev.jobs :
                                                x.departmentId = resp.target}})

\* C6: after a HiringPipeline is deleted, no HiringStage with that pipelineId
\* remains, no StageParticipant or Interview of one of those stages remains,
\* and no InterviewParticipant or Checklist of one of those interviews remains.
C6_PipelineDeleteCascades ==
    DeletedDocument("pipelines", "PipelineDELETE")
    => LET stageIds == {x.id : x \in {y \in prev.stages : y.pipelineId = resp.target}}
           interviewIds == {x.id : x \in {y \in prev.interviews : y.stageId \in stageIds}}
       IN  /\ {x \in db.stages : x.pipelineId = resp.target} = {}
           /\ {x \in db.stageParticipants : x.stageId \in stageIds} = {}
           /\ {x \in db.interviews : x.stageId \in stageIds} = {}
           /\ {x \in db.interviewParticipants : x.interviewId \in interviewIds} = {}
           /\ {x \in db.checklists : x.interviewId \in interviewIds} = {}

\* C7: after a Job is deleted through the job delete handler, no JobSkill,
\* JobApplication or ReferralToken with that jobId remains.
C7_JobDeleteCascades ==
    (resp.op = "JobDELETE" /\ resp.status = 200)
    => /\ ~Exists(db, "jobs", resp.target)
       /\ NoJobDependents(db, {resp.target})

\* C8: deletion of a Department, HiringPipeline or Job is all-or-nothing: when
\* a step of the request fails, the parent and every dependent that existed
\* before the request still exist after it.
C8_DeleteAllOrNothing ==
    (/\ resp.op \in {"DepartmentDELETE", "PipelineDELETE", "JobDELETE"}
     /\ resp.status = 500)
    => \A c \in Collections \ {"activityLogs"} : prev[c] \subseteq db[c]

\* The reference fields of a saved document that resolve to no document of d
UnresolvedRefs(d, op, doc) ==
    IF op = "JobSave"
    THEN {f \in {"departmentId"} : ~Exists(d, "departments", doc.departmentId)}
         \cup {f \in {"hiringManagerId"} : ~Exists(d, "users", doc.hiringManagerId)}
         \cup {f \in {"hiringPipelineId"} : ~Exists(d, "pipelines", doc.hiringPipelineId)}
    ELSE {f \in {"candidateId"} : ~Exists(d, "candidates", doc.candidateId)}
         \cup {f \in {"jobId"} : ~Exists(d, "jobs", doc.jobId)}

SaveOfUnresolvedRef ==
    /\ resp.op \in {"JobSave", "JobApplicationSaveHook"}
    /\ UnresolvedRefs(prev, resp.op, resp.doc) # {}

RejectedAsInvalidField ==
    /\ resp.status = 500
    /\ \E f \in UnresolvedRefs(prev, resp.op, resp.doc) :
           resp.error = <<"Invalid", f>>
    /\ \A c \in Collections : db[c] = prev[c]
    /\ resp.doc \notin pending

ConflictErrors ==
    {<<"Candidate has already applied to this job">>, <<"E11000 duplicate key error">>}

C10_OneApplicationPerPair ==
    /\ \A a, b \in db.jobApplications :
           (a.candidateId = b.candidateId /\ a.jobId = b.jobId) => a = b
    /\ (/\ resp.op \in {"JobApplicationSaveHook", "JobApplicationSaveInsert"}
        /\ \E x \in prev.jobApplications :
               x.candidateId = resp.doc.candidateId /\ x.jobId = resp.doc.jobId)
       => /\ resp.status = 500
          /\ resp.error \in ConflictErrors
          /\ db.jobApplications = prev.jobApplications
          /\ resp.doc \notin pending

\* two interleaved attempts for one pair: both hooks passed, the second insert
\* met the first one's document
C10_Witness ==
    /\ resp.op = "JobApplicationSaveInsert"
    /\ resp.error = <<"E11000 duplicate key error">>
    /\ \E x \in db.jobApplications :
           /\ x.candidateId = resp.doc.candidateId
           /\ x.jobId = resp.doc.jobId
           /\ x.id # resp.doc.id

----------------------------------------------------------------------------
\* Candidate creation (POST of the candidate collection route)

\* number of creation requests that may be between their email check and
\* their save at one time
MaxInFlight == 2

\* createCandidateSchema, for the fields the model carries: name is a
\* non-empty string, email has the form of an email address, status is a
\* member of CandidateStatus when present
NotAnEmail == "not-an-email"

CreateBody(name, email, status, skills, stages) ==
    [name |-> name, email |-> email, status |-> status, skills |-> skills,
     stages |-> stages]

createCandidateSchema(body) ==
    /\ body.name # ""
    /\ body.email # NotAnEmail
    /\ body.status \in CandidateStatus \cup {Absent}

\* a check that finds no candidate, whatever the collection holds
EmailInUse_Never(d, email) == FALSE

\* Candidate.aggregate([{$match: {email}}, {$count: "count"}]), count > 0
EmailInUse(d, email) == \E x \in d.candidates : x.email = email

NewCandidateId(d) == "cn" \o ToString(Cardinality(d.candidates) + 1)

\* POST, first part: input validation and the duplicate-email check.  The
\* check and the save are separate round trips to the database, so another
\* request may run between them.
CandidatePOST(body) ==
    LET R(status, error) ==
            RespDoc("CandidatePOST", body.email, status, error, NoRef, body.status, body)
        n == Cardinality(pending)
    IN  /\ prev' = db
        /\ db' = db
        /\ UNCHANGED <<saveLog, now, issued>>
        /\ IF ~createCandidateSchema(body)
           THEN pending' = pending /\ resp' = R(400, <<"Invalid input">>)
           ELSE IF EmailInUse(db, body.email)
           THEN pending' = pending /\ resp' = R(409, <<"Email already in use">>)
           ELSE /\ n < MaxInFlight
                /\ pending' = pending \cup {[body |-> body, n |-> n + 1]}
                /\ resp' = R(0, NoError)

\* POST, second part: candidate.save({session}), the skills, the stage
\* participants, the activity log and the commit.  The schema hooks' lookups
\* carry no session and read the committed database.
CandidatePOSTSave(r) ==
    LET body == r.body
        candidate == Cand(NewCandidateId(db), body.email,
                          IF body.status # Absent THEN body.status ELSE "applied")
        \* new Candidate({... status ...}): the path is set, so isModified is true
        hookErr == CandidatePreSave(db, candidate, TRUE)
        insertErr == IF EmailInUse(db, body.email) THEN DuplicateKey ELSE NoError
        t1 == Insert(db, "candidates", candidate)
        t2 == IF body.skills = NoArray THEN t1
              ELSE [t1 EXCEPT !.candidateSkills =
                       @ \cup {[candidateId |-> candidate.id, skill |-> k] :
                                   k \in body.skills[1]}]
        badStages == IF body.stages = NoArray THEN {}
                     ELSE {st \in body.stages[1] : ~Exists(t2, "stages", st)}
        t3 == IF body.stages = NoArray THEN t2
              ELSE [t2 EXCEPT !.stageParticipants =
                       @ \cup {[candidateId |-> candidate.id, stageId |-> st] :
                                   st \in body.stages[1]}]
        log == Log(PlaceholderActorId, "create", "candidate", candidate.id)
        logErr == ActivityLogPreSave(db, log)
        t4 == Insert(t3, "activityLogs", log)
        R(status, error) ==
            RespDoc("CandidatePOSTSave", body.email, status, error, NoRef,
                    candidate.status, candidate)
    IN  /\ r \in pending
        /\ pending' = pending \ {r}
        /\ prev' = db
        /\ UNCHANGED <<saveLog, now, issued>>
        /\ IF hookErr # NoError THEN db' = db /\ resp' = R(500, hookErr)
           ELSE IF insertErr # NoError THEN db' = db /\ resp' = R(500, insertErr)
           ELSE IF badStages # {} THEN db' = db /\ resp' = R(400, <<"Invalid stage ID">>)
           ELSE IF logErr # NoError THEN db' = db /\ resp' = R(500, logErr)
           ELSE db' = t4 /\ resp' = R(201, NoError)

\* SpecCreate: candidate creation requests, possibly interleaved, on the
\* seeded database
CreateBodies ==
    {CreateBody(nm, e, st, NoArray, NoArray) :
        nm \in {"", "Ann"}, e \in {"a@x", "z@x", NotAnEmail},
        st \in CandidateStatus \cup {Absent}}
    \cup {CreateBody("Ann", "z@x", Absent, Array({"k2"}), Array(st)) :
             st \in {{"st2"}, {"st9"}}}

InitCreate ==
    /\ \E us \in UserSeeds : db = [SeedDB EXCEPT !.users = us]
    /\ prev = db
    /\ resp = NoResp
    /\ pending = {}
    /\ saveLog = <<>>
    /\ now = 0
    /\ issued = <<>>

NextCreate ==
    \/ \E body \in CreateBodies : CandidatePOST(body)
    \/ \E r \in pending : CandidatePOSTSave(r)

SpecCreate == InitCreate /\ [][NextCreate]_vars

----------------------------------------------------------------------------
\* Job creation (POST of the job collection route) and job update (PATCH of a
\* job by id)

\* a salary field the body does not carry
NoSalary == -1

\* hiringManagerId: null
Null == "null"

JobBody(hiringManagerId, departmentId, pipelineId, minimumSalary, maximumSalary) ==
    [hiringManagerId |-> hiringManagerId, departmentId |-> departmentId,
     pipelineId |-> pipelineId, minimumSalary |-> minimumSalary,
     maximumSalary |-> maximumSalary]

\* !data.maximumSalary: true of a missing field and of 0
Falsy(salary) == salary = NoSalary \/ salary = 0

\* the .refine() of JobRoleCreateSchema and of JobUpdateSchema
SalaryRefine(data) ==
    \/ Falsy(data.maximumSalary)
    \/ Falsy(data.minimumSalary)
    \/ data.maximumSalary >= data.minimumSalary

\* JobRoleCreateSchema: the three ids are required and well-formed
JobRoleCreateSchema(data) ==
    /\ \A f \in {"hiringManagerId", "departmentId", "pipelineId"} :
           data[f] # Absent /\ isValidObjectId(data[f])
    /\ SalaryRefine(data)

\* the required paths of JobSchema, then the validator of maximumSalary
JobCreateValidate(job) ==
    IF job.hiringManagerId = Null
    THEN <<"Validation error", "hiringManagerId">>
    ELSE JobValidate(job)

\* POST: the handler looks the three references up itself and then calls
\* Job.create with hiringManagerId: null
JobPOST(body) ==
    LET pipeline == FindById(db, "pipelines", body.pipelineId)
        job == JobDoc(NewJobId(db), body.departmentId, Null, body.pipelineId,
                      IF body.minimumSalary # NoSalary THEN body.minimumSalary ELSE 0,
                      IF body.maximumSalary # NoSalary THEN body.maximumSalary
                      ELSE IF body.minimumSalary # NoSalary THEN body.minimumSalary
                      ELSE 0)
        invalid == JobCreateValidate(job)
        hookErr == JobPreSave(db, job)
        R(status, error) == RespDoc("JobPOST", job.id, status, error, NoRef, NoRef, body)
    IN  /\ prev' = db
        /\ UNCHANGED <<pending, saveLog, now, issued>>
        /\ IF ~JobRoleCreateSchema(body)
           THEN db' = db /\ resp' = R(400, <<"Validation failed">>)
           ELSE IF ~Exists(db, "users", body.hiringManagerId)
           THEN db' = db /\ resp' = R(400, <<"Invalid hiring manager ID.">>)
           ELSE IF ~Exists(db, "departments", body.departmentId)
           THEN db' = db /\ resp' = R(400, <<"Invalid department ID.">>)
           ELSE IF pipeline = {}
           THEN db' = db /\ resp' = R(400, <<"Invalid pipeline ID.">>)
           ELSE IF \E pl \in pipeline : pl.createdById # body.hiringManagerId
           THEN db' = db /\ resp' = R(400, <<"Pipeline does not belong to the specified hiring manager.">>)
           ELSE IF invalid # NoError THEN db' = db /\ resp' = R(400, invalid)
           ELSE IF hookErr # NoError THEN db' = db /\ resp' = R(400, hookErr)
           ELSE db' = Insert(db, "jobs", job) /\ resp' = R(201, NoError)

\* Update validators (runValidators: true) run the validators of the paths
\* the update sets.  maximumSalary's validator compares with
\* this.minimumSalary; in an update `this` is not the stored document, it has
\* no minimumSalary, and value >= undefined is false.
JobUpdateValidate(update) ==
    IF update.maximumSalary # NoSalary
    THEN <<"maximumSalary must be greater than or equal to minimumSalary">>
    ELSE NoError

\* PATCH: Job.findOneAndUpdate({_id, hiringManagerId: userId}, {$set:
\* updatePayload}, {new: true, runValidators: true}); the stored document is
\* not loaded and no save hook runs
JobPATCH(authHeader, id, body) ==
    LET userId == MockUserId
        pipeline == FindById(db, "pipelines", body.pipelineId)
        found == {j \in db.jobs : j.id = id /\ j.hiringManagerId = userId}
        invalid == JobUpdateValidate(body)
        Set(j) ==
            [j EXCEPT
                !.minimumSalary = IF body.minimumSalary # NoSalary
                                  THEN body.minimumSalary ELSE @,
                !.maximumSalary = IF body.maximumSalary # NoSalary
                                  THEN body.maximumSalary ELSE @,
                !.departmentId = IF body.departmentId # Absent
                                 THEN body.departmentId ELSE @,
                !.hiringPipelineId = IF body.pipelineId # Absent
                                     THEN body.pipelineId ELSE @,
                !.hiringManagerId = IF body.hiringManagerId # Absent
                                    THEN body.hiringManagerId ELSE @]
        R(status, error) == RespDoc("JobPATCH", id, status, error, NoRef, NoRef, body)
    IN  /\ prev' = db
        /\ UNCHANGED <<pending, saveLog, now, issued>>
        /\ IF ~authHeader THEN db' = db /\ resp' = R(500, <<"Unauthorized">>)
           ELSE IF ~isValidObjectId(id)
           THEN db' = db /\ resp' = R(400, <<"Invalid Job ID">>)
           ELSE IF ~SalaryRefine(body)
           THEN db' = db /\ resp' = R(422, <<"Validation Error">>)
           ELSE IF body.hiringManagerId # Absent /\ ~Exists(db, "users", body.hiringManagerId)
           THEN db' = db /\ resp' = R(500, <<"Invalid hiring manager ID">>)
           ELSE IF body.departmentId # Absent /\ ~Exists(db, "departments", body.departmentId)
           THEN db' = db /\ resp' = R(500, <<"Invalid department ID">>)
           ELSE IF body.pipelineId # Absent /\ pipeline = {}
           THEN db' = db /\ resp' = R(500, <<"Invalid pipeline ID">>)
           ELSE IF /\ body.pipelineId # Absent
                   /\ \E pl \in pipeline :
                          pl.createdById # (IF body.hiringManagerId # Absent
                                            THEN body.hiringManagerId ELSE userId)
           THEN db' = db /\ resp' = R(500, <<"Pipeline does not belong to the specified hiring manager">>)
           ELSE IF invalid # NoError THEN db' = db /\ resp' = R(500, invalid)
           ELSE IF found = {}
           THEN db' = db /\ resp' = R(404, <<"Job not found or unauthorized">>)
           ELSE /\ db' = [db EXCEPT !.jobs = (@ \ found) \cup {Set(j) : j \in found}]
                /\ resp' = R(200, NoError)

\* SpecJob: job creation and job update requests on the seeded database
Salaries == {NoSalary, 0, 60, 100}

CreateJobBodies ==
    {JobBody(u, d, p, sal[1], sal[2]) :
        u \in {MockUserId, "u9"}, d \in {"d1", "d9", Absent},
        p \in {"p1", "p2", "p9"}, sal \in {<<60, 80>>, <<80, 60>>, <<NoSalary, NoSalary>>}}

UpdateJobBodies ==
    {JobBody(Absent, Absent, Absent, mn, mx) : mn \in Salaries, mx \in Salaries}
    \cup {JobBody(u, d, p, NoSalary, NoSalary) :
             u \in {Absent, "u2", "u9"}, d \in {Absent, "d9"},
             p \in {Absent, "p2", "p9"}}

InitJob ==
    /\ db = SeedDB
    /\ prev = db
    /\ resp = NoResp
    /\ pending = {}
    /\ saveLog = <<>>
    /\ now = 0
    /\ issued = <<>>

NextJob ==
    \/ \E body \in CreateJobBodies : JobPOST(body)
    \/ \E h \in BOOLEAN, id \in {"j1", "j2", NotAnId}, body \in UpdateJobBodies :
          JobPATCH(h, id, body)

SpecJob == InitJob /\ [][NextJob]_vars

\* C12: creating a Job with minimumSalary = 80 and maximumSalary = 60 fails
\* validation and persists nothing, while creating a Job with minimumSalary =
\* 60 and maximumSalary = 80, all other fields valid and all references
\* existing, succeeds and persists the Job.
C12_SalaryOrderOnCreate ==
    resp.op = "JobPOST"
    => /\ (resp.doc.minimumSalary = 80 /\ resp.doc.maximumSalary = 60)
          => resp.status = 400 /\ db = prev
       /\ (/\ resp.doc.minimumSalary = 60 /\ resp.doc.maximumSalary = 80
           /\ Exists(prev, "users", resp.doc.hiringManagerId)
           /\ Exists(prev, "departments", resp.doc.departmentId)
           /\ \E pl \in prev.pipelines :
                  pl.id = resp.doc.pipelineId /\ pl.createdById = resp.doc.hiringManagerId)
          => /\ resp.status = 201
             /\ \E j \in db.jobs \ prev.jobs :
                    j.minimumSalary = 60 /\ j.maximumSalary = 80

\* C13: every persisted Job satisfies minimumSalary <= maximumSalary after any
\* sequence of job creation and job update (PATCH) requests, including an
\* update that supplies only one of the two salary fields.
C13_StoredSalariesOrdered ==
    \A j \in db.jobs : j.minimumSalary <= j.maximumSalary

----------------------------------------------------------------------------
\* Hiring stages: HiringStageSchema.pre("save"), and the pipeline update
\* handler (PUT of a pipeline by id)

\* number of HiringStage documents a run may create
MaxNewStages == 1

StageStatus == {"upcoming", "ongoing", "completed", "skipped", "terminated"}

\* the paths HiringStageSchema requires: pipelineId, name, mandatory, status
HiringStageValidate(doc) ==
    IF \E f \in {"pipelineId", "name", "mandatory", "status"} : f \notin DOMAIN doc
    THEN <<"HiringStage validation failed">>
    ELSE IF doc.status \notin StageStatus
         THEN <<"HiringStage validation failed">>
         ELSE NoError

\* a hook without the rule on mandatory stages
HiringStagePreSave_NoMandatoryRule(d, stage) ==
    IF ~Exists(d, "pipelines", stage.pipelineId) THEN Invalid("pipelineId")
    ELSE NoError

\* HiringStageSchema.pre("save")
HiringStagePreSave(d, stage) ==
    IF stage.mandatory /\ stage.status = "skipped"
    THEN <<"Mandatory stages cannot be skipped">>
    ELSE IF ~Exists(d, "pipelines", stage.pipelineId) THEN Invalid("pipelineId")
         ELSE NoError

\* the seeded database with the three stages of pipeline p1
PipelineSeedDB ==
    [SeedDB EXCEPT
        !.stages = {Stage("st1", "p1", "Application", TRUE, "upcoming"),
                    Stage("st3", "p1", "Screening", FALSE, "upcoming"),
                    Stage("st4", "p1", "Tech Interview", FALSE, "upcoming")},
        !.stageParticipants = {}, !.interviews = {},
        !.interviewParticipants = {}, !.checklists = {}]

\* await stage.save(), for a new document (no stage has its id) and for a
\* changed one
HiringStageSave(stage) ==
    LET old == FindById(db, "stages", stage.id)
        invalid == HiringStageValidate(stage)
        err == IF invalid # NoError THEN invalid ELSE HiringStagePreSave(db, stage)
    IN  /\ old = {} => Cardinality(db.stages) < Cardinality(PipelineSeedDB.stages) + MaxNewStages
        /\ prev' = db
        /\ db' = IF err = NoError
                 THEN [db EXCEPT !.stages = (@ \ old) \cup {stage}]
                 ELSE db
        /\ resp' = RespDoc("HiringStageSave", stage.id, IF err = NoError THEN 200 ELSE 500,
                           err, NoRef, NoRef, stage)
        /\ UNCHANGED <<pending, saveLog, now, issued>>

\* String.prototype.toLowerCase on the stage names of the model
toLowerCase(name) ==
    CASE name = "Application"    -> "application"
      [] name = "Screening"      -> "screening"
      [] name = "Tech Interview" -> "tech interview"
      [] OTHER                   -> name

\* one entry of hiringProcessStages after StageSchema has parsed it: _id
\* (Absent for a stage to create), name, isMandatory, status.  The schema has
\* no key "mandatory"; zod drops the keys it does not know.
StageData(id, name, isMandatory, status) ==
    [id |-> id, name |-> name, isMandatory |-> isMandatory, status |-> status]

PipelineBody(name, createdById, hiringProcessStages) ==
    [name |-> name, createdById |-> createdById,
     hiringProcessStages |-> hiringProcessStages]

\* UpdatePipelineSchema: at least one field, and a stage list, when present,
\* holds a stage named application and one named screening, in any case
UpdatePipelineSchema(body) ==
    /\ body.name # Absent \/ body.createdById # Absent
          \/ body.hiringProcessStages # NoArray
    /\ body.createdById # Absent => isValidObjectId(body.createdById)
    /\ body.hiringProcessStages # NoArray
       => LET stages == body.hiringProcessStages[1]
          IN  /\ \E i \in DOMAIN stages : toLowerCase(stages[i].name) = "application"
              /\ \E i \in DOMAIN stages : toLowerCase(stages[i].name) = "screening"

\* The state of a request inside its transaction: t is the database as the
\* session sees it, c the committed database, which writes made without the
\* session change at once; status 0 while the request goes on.
Going(t, c) == [t |-> t, c |-> c, status |-> 0, error |-> NoError]

Failed(st, status, error) == [st EXCEPT !.status = status, !.error = error]

\* ActivityLog.create({...}) without session: saved at once when it passes
LogCreate(st, log) ==
    LET err == ActivityLogPreSave(st.c, log)
    IN  IF err # NoError THEN Failed(st, 500, err)
        ELSE [st EXCEPT !.t = Insert(st.t, "activityLogs", log),
                        !.c = Insert(st.c, "activityLogs", log)]

\* ["Application", "Screening"].includes(stage.name.toLowerCase())
IsRequiredStage(stage) == toLowerCase(stage.name) \in {"Application", "Screening"}

\* for (const stage of stagesToDelete) { ... }
RECURSIVE DeleteStages(_, _, _)
DeleteStages(st, user, stages) ==
    IF st.status # 0 \/ stages = {} THEN st
    ELSE LET stage == CHOOSE x \in stages : TRUE
         IN  IF IsRequiredStage(stage)
             THEN Failed(st, 400, <<"Cannot delete required stage", stage.name>>)
             ELSE DeleteStages(
                      LogCreate([st EXCEPT !.t = DeleteWhere(st.t, "stages", {stage})],
                                Log(user, "delete", Undefined, stage.id)),
                      user, stages \ {stage})

\* the update of an existing stage: the fields of the entry are assigned and
\* the stage is saved in the session.  isMandatory is no path of
\* HiringStageSchema, so the assignment does not reach the stored document.
UpdateStage(st, user, stageData) ==
    LET found == FindById(st.t, "stages", stageData.id)
        stage == CHOOSE x \in found : TRUE
        changed == [stage EXCEPT
                       !.name = stageData.name,
                       !.status = IF stageData.status # Absent
                                  THEN stageData.status ELSE @]
        invalid == HiringStageValidate(changed)
        err == IF invalid # NoError THEN invalid ELSE HiringStagePreSave(st.c, changed)
    IN  IF found = {} THEN st
        ELSE IF err # NoError THEN Failed(st, 500, err)
        ELSE LogCreate([st EXCEPT !.t = Replace(st.t, "stages", stage, changed)],
                       Log(user, "update", Undefined, stage.id))

\* the creation of a stage: new HiringStage({...stageData, pipelineId}) and
\* newStage.save() without the session
CreateStage(st, user, pipeId, stageData) ==
    LET base == [id |-> "sn" \o ToString(Cardinality(st.t.stages) + 1),
                 pipelineId |-> pipeId, name |-> stageData.name]
        newStage == IF stageData.status # Absent
                    THEN [f \in DOMAIN base \cup {"status"} |->
                             IF f = "status" THEN stageData.status ELSE base[f]]
                    ELSE base
        invalid == HiringStageValidate(newStage)
        err == IF invalid # NoError THEN invalid ELSE HiringStagePreSave(st.c, newStage)
    IN  IF err # NoError THEN Failed(st, 500, err)
        ELSE LogCreate([st EXCEPT !.t = Insert(st.t, "stages", newStage),
                                  !.c = Insert(st.c, "stages", newStage)],
                       Log(user, "create", Undefined, newStage.id))

\* for (const stageData of hiringProcessStages) { ... }
RECURSIVE SaveStages(_, _, _, _, _)
SaveStages(st, user, pipeId, existingStageIds, stages) ==
    IF st.status # 0 \/ stages = <<>> THEN st
    ELSE LET stageData == Head(stages)
         IN  SaveStages(
                 IF stageData.id # Absent /\ stageData.id \in existingStageIds
                 THEN UpdateStage(st, user, stageData)
                 ELSE CreateStage(st, user, pipeId, stageData),
                 user, pipeId, existingStageIds, Tail(stages))

\* HiringPipelineSchema.pre("save")
HiringPipelinePreSave(d, pipeline) ==
    IF ~Exists(d, "users", pipeline.createdById) THEN Invalid("createdById")
    ELSE NoError

\* PUT of a pipeline
PipelinePUT(user, pipeId, body) ==
    LET g == Guard(user, pipeId)
        found == FindById(db, "pipelines", pipeId)
        pipeline == CHOOSE x \in found : TRUE
        changed == [pipeline EXCEPT
                       !.createdById = IF body.createdById # Absent
                                       THEN body.createdById ELSE @]
        list == IF body.hiringProcessStages = NoArray THEN <<>>
                ELSE body.hiringProcessStages[1]
        existingStages == {x \in db.stages : x.pipelineId = pipeId}
        existingStageIds == {x.id : x \in existingStages}
        newStageIds == {list[i].id : i \in DOMAIN list} \ {Absent}
        stagesToDelete == {x \in existingStages : x.id \notin newStageIds}
        s1 == DeleteStages(Going(db, db), user, stagesToDelete)
        s2 == SaveStages(s1, user, pipeId, existingStageIds, list)
        saveErr == HiringPipelinePreSave(s2.c, changed)
        s3 == IF s2.status # 0 THEN s2
              ELSE IF saveErr # NoError THEN Failed(s2, 500, saveErr)
              ELSE LogCreate([s2 EXCEPT !.t = Replace(s2.t, "pipelines", pipeline, changed)],
                             Log(user, "update", Undefined, pipeId))
        R(status, error) == RespDoc("PipelinePUT", pipeId, status, error, NoRef, NoRef, body)
    IN  /\ prev' = db
        /\ UNCHANGED <<pending, saveLog, now, issued>>
        /\ IF g # NoError THEN db' = db /\ resp' = R(g[1], <<g[2]>>)
           ELSE IF ~UpdatePipelineSchema(body)
           THEN db' = db /\ resp' = R(400, <<"Invalid input">>)
           ELSE IF found = {}
           THEN db' = db /\ resp' = R(404, <<"Pipeline not found">>)
           ELSE IF s3.status # 0
           THEN \* the transaction is aborted; what was written without the
                \* session stays
                db' = s3.c /\ resp' = R(s3.status, s3.error)
           ELSE db' = s3.t /\ resp' = R(200, NoError)

\* SpecPipeline: saves of HiringStage documents and pipeline update requests
StageItems ==
    [A1  |-> StageData("st1", "Application", Absent, Absent),
     A1s |-> StageData("st1", "Application", "false", "skipped"),
     S3  |-> StageData("st3", "Screening", Absent, Absent),
     T4  |-> StageData("st4", "Tech Interview", Absent, Absent),
     T4s |-> StageData("st4", "Tech Interview", Absent, "skipped"),
     T4a |-> StageData("st4", "Application", Absent, Absent),
     New |-> StageData(Absent, "application", "true", "upcoming")]

StageLists ==
    {<<StageItems.A1, StageItems.S3, StageItems.T4>>,
     <<StageItems.A1s, StageItems.S3, StageItems.T4>>,
     <<StageItems.A1, StageItems.S3, StageItems.T4s>>,
     <<StageItems.S3, StageItems.T4a>>,
     <<StageItems.A1, StageItems.T4>>,
     <<StageItems.A1, StageItems.S3>>,
     <<StageItems.New, StageItems.S3, StageItems.T4>>,
     <<StageItems.A1, StageItems.S3, StageItems.T4, StageItems.New>>}

PipelineBodies ==
    {PipelineBody(Absent, Absent, Array(l)) : l \in StageLists}
    \cup {PipelineBody(n, c, NoArray) :
             n \in {Absent, "Hiring"}, c \in {Absent, "u2", "u9", NotAnId}}

StageSaves ==
    {[x EXCEPT !.mandatory = m, !.status = st] :
        x \in {y \in db.stages : y.id \in {"st1", "st4"}}, m \in BOOLEAN,
        st \in {"upcoming", "skipped"}}
    \cup {Stage("st9", pl, "Offer", m, st) :
             pl \in {"p1", "p9"}, m \in BOOLEAN, st \in {"upcoming", "skipped"}}

InitPipeline ==
    /\ db = PipelineSeedDB
    /\ prev = db
    /\ resp = NoResp
    /\ pending = {}
    /\ saveLog = <<>>
    /\ now = 0
    /\ issued = <<>>

NextPipeline ==
    \/ \E stage \in StageSaves : HiringStageSave(stage)
    \/ \E u \in SessionUsers, id \in {"p1", "p9", NotAnId}, body \in PipelineBodies :
          PipelinePUT(u, id, body)

SpecPipeline == InitPipeline /\ [][NextPipeline]_vars

\* the entries of a request's stage list, <<>> when the body carries none
StageListOf(body) ==
    IF body.hiringProcessStages = NoArray THEN <<>> ELSE body.hiringProcessStages[1]

\* C14: saving a HiringStage with mandatory = true and status = skipped is
\* rejected with an error, on creation and on every later update, and the
\* stored stages stay as they were; an update request of the pipeline update
\* handler that sets status = skipped on a stored mandatory stage (such as
\* "Application") is rejected with an error and leaves that stage unchanged.
C14_MandatoryStageNotSkipped ==
    /\ (/\ resp.op = "HiringStageSave"
        /\ resp.doc.mandatory
        /\ resp.doc.status = "skipped")
       => /\ resp.status = 500
          /\ resp.error = <<"Mandatory stages cannot be skipped">>
          /\ db.stages = prev.stages
    /\ resp.op = "PipelinePUT"
       => \A i \in DOMAIN StageListOf(resp.doc) : \A s \in prev.stages :
              (/\ s.id = StageListOf(resp.doc)[i].id
               /\ s.pipelineId = resp.target
               /\ s.mandatory
               /\ StageListOf(resp.doc)[i].status = "skipped")
              => resp.status >= 400 /\ s \in db.stages

\* the update handler met the hook on the stored mandatory stage Application
C14_Witness ==
    /\ resp.op = "PipelinePUT"
    /\ resp.error = <<"Mandatory stages cannot be skipped">>
    /\ \E i \in DOMAIN StageListOf(resp.doc) : \E s \in db.stages :
           /\ s.id = StageListOf(resp.doc)[i].id
           /\ s.name = "Application"
           /\ s.mandatory
           /\ s.status # "skipped"
           /\ StageListOf(resp.doc)[i].status = "skipped"

\* the existing stages of the request's pipeline that are named Application or
\* Screening and that the request's stage list omits
OmittedRequiredStages ==
    {s \in prev.stages :
        /\ s.pipelineId = resp.target
        /\ s.name \in {"Application", "Screening"}
        /\ \A i \in DOMAIN StageListOf(resp.doc) : StageListOf(resp.doc)[i].id # s.id}

\* C15: a pipeline update request whose stage list omits an existing stage
\* named "Application" or "Screening" is rejected with an error and that
\* stage is not deleted, whatever the value of the stage's mandatory flag.
C15_RequiredStageNotDeleted ==
    (/\ resp.op = "PipelinePUT"
     /\ resp.doc.hiringProcessStages # NoArray
     /\ OmittedRequiredStages # {})
    => /\ resp.status >= 400
       /\ OmittedRequiredStages \subseteq db.stages

\* a permitted user's request reached the stage loop with Application omitted,
\* once with the flag set and once with it cleared
C15_Witness ==
    /\ resp.op = "PipelinePUT"
    /\ resp.doc.hiringProcessStages # NoArray
    /\ resp.status = 500
    /\ \E s \in OmittedRequiredStages : s.name = "Application" /\ ~s.mandatory

----------------------------------------------------------------------------
\* Batch resume analysis (POST of the analyseSave route, with parseResumes
\* and analyzeResumes)

\* resumes of one request, and Analysis documents a run may hold before a
\* further request is made
MaxBatch == 2
MaxAnalyses == 1

\* One uploaded resume and what its environment does to it: parse[n] tells
\* whether the n-th parse of the file yields text, analyse[n] whether the n-th
\* LLM analysis of its text returns a result, save[n] whether the n-th
\* Analysis.create for it succeeds; the last entry stands for every later try.
Resume(filename, parse, analyse, save) ==
    [filename |-> filename, parse |-> parse, analyse |-> analyse, save |-> save]

Outcome(outcomes, n) ==
    outcomes[IF n > Len(outcomes) THEN Len(outcomes) ELSE n]

\* parseResumes: a failure is caught per file and yields the empty text.  The
\* handler parses every file once and the files whose text is empty once more.
ParseAttempts(resume) == IF Outcome(resume.parse, 1) THEN 1 ELSE 2

Parsed(resume) == Outcome(resume.parse, 1) \/ Outcome(resume.parse, 2)

\* validIndices: the resumes with text, in upload order
ValidIndices(batch) ==
    LET HasText(i) == Parsed(batch[i])
    IN  SelectSeq([i \in 1..Len(batch) |-> i], HasText)

\* the progress of a request: how often each resume was analysed and saved,
\* the resumes saved, the entries of a failure list (the resume each entry was
\* made for), the documents created, and whether an analysis has thrown
Progress(batch) ==
    [analysed |-> [i \in 1..Len(batch) |-> 0],
     saves |-> [i \in 1..Len(batch) |-> 0],
     saved |-> <<>>, failed |-> <<>>, created |-> {}, thrown |-> FALSE]

\* tool.invoke({resume, jobDescription}) inside analyzeResumes: nothing
\* catches what it throws
Analyse(st, batch, i) ==
    LET n == st.analysed[i] + 1
    IN  [st EXCEPT !.analysed[i] = n,
                   !.thrown = ~Outcome(batch[i].analyse, n)]

\* analyzeResumes(validResumes, jobDescription): one call after the other
RECURSIVE analyzeResumes(_, _, _)
analyzeResumes(st, batch, indices) ==
    IF st.thrown \/ indices = <<>> THEN st
    ELSE analyzeResumes(Analyse(st, batch, Head(indices)), batch, Tail(indices))

\* a save whose failure leaves no entry
TrySave_Silent(st, batch, i, reportAs) ==
    LET n == st.saves[i] + 1
    IN  IF Outcome(batch[i].save, n)
        THEN [st EXCEPT !.saves[i] = n,
                        !.saved = Append(@, i),
                        !.created = @ \cup {[resume |-> i, try |-> n]}]
        ELSE [st EXCEPT !.saves[i] = n]

\* Analysis.create for resume i; reportAs is the resume the failure entry is
\* made for
TrySave(st, batch, i, reportAs) ==
    LET n == st.saves[i] + 1
    IN  IF Outcome(batch[i].save, n)
        THEN [st EXCEPT !.saves[i] = n,
                        !.saved = Append(@, i),
                        !.created = @ \cup {[resume |-> i, try |-> n]}]
        ELSE [st EXCEPT !.saves[i] = n,
                        !.failed = Append(@, reportAs)]

\* the first save loop
RECURSIVE FirstSaves(_, _, _)
FirstSaves(st, batch, indices) ==
    IF indices = <<>> THEN st
    ELSE FirstSaves(TrySave(st, batch, Head(indices), Head(indices)), batch,
                    Tail(indices))

\* validFilenames.findIndex((f) => f === fail.filename): the first resume
\* with text that carries the name of the failed one
FindIndex(batch, valid, filename) ==
    LET hits == {k \in DOMAIN valid : batch[valid[k]].filename = filename}
    IN  valid[CHOOSE k \in hits : \A m \in hits : k <= m]

\* the retry loop: the resume found by name is analysed and saved again
RECURSIVE RetrySaves(_, _, _, _)
RetrySaves(st, batch, valid, fails) ==
    IF st.thrown \/ fails = <<>> THEN st
    ELSE LET index == FindIndex(batch, valid, batch[Head(fails)].filename)
             again == Analyse(st, batch, index)
         IN  RetrySaves(IF again.thrown THEN again
                        ELSE TrySave(again, batch, index, Head(fails)),
                        batch, valid, Tail(fails))

\* the outcome of the request: HTTP status and the response body, with the
\* number of tries each resume got
AnalyseBatch(batch) ==
    LET valid == ValidIndices(batch)
        s0 == Progress(batch)
        s1 == analyzeResumes(s0, batch, valid)
        s2 == FirstSaves(s1, batch, valid)
        s3 == RetrySaves([s2 EXCEPT !.failed = <<>>], batch, valid, s2.failed)
        last == IF s1.thrown THEN s1 ELSE s3
        finalFailedParses ==
            SelectSeq([i \in 1..Len(batch) |-> i], LAMBDA i : ~Parsed(batch[i]))
    IN  [batch |-> batch,
         status |-> IF last.thrown THEN 500 ELSE 200,
         success |-> ~last.thrown,
         saved |-> IF last.thrown THEN <<>> ELSE last.saved,
         failed |-> IF last.thrown THEN <<>> ELSE last.failed \o finalFailedParses,
         parses |-> [i \in 1..Len(batch) |-> ParseAttempts(batch[i])],
         analysed |-> last.analysed,
         saves |-> last.saves,
         created |-> last.created]

\* POST: hasDescription tells whether getJobDescription finds a description
AnalyseSavePOST(batch, hasDescription) ==
    LET out == AnalyseBatch(batch)
        n == Cardinality(db.analyses)
        R(status, error, doc) ==
            RespDoc("AnalyseSavePOST", NoRef, status, error, NoRef, NoRef, doc)
    IN  /\ n < MaxAnalyses
        /\ prev' = db
        /\ UNCHANGED <<pending, saveLog, now, issued>>
        /\ IF batch = <<>>
           THEN db' = db /\ resp' = R(400, <<"At least one resume file is required.">>, NoDoc)
           ELSE IF ~hasDescription
           THEN db' = db /\ resp' = R(400, <<"Job description is required.">>, NoDoc)
           ELSE /\ db' = [db EXCEPT !.analyses =
                             @ \cup {[id |-> n + 1, resume |-> c.resume, try |-> c.try] :
                                        c \in out.created}]
                /\ resp' = R(out.status,
                             IF out.success THEN NoError ELSE <<"Analysis failed">>, out)

\* SpecAnalyse: batch requests of up to MaxBatch resumes
ParseOutcomes == {<<TRUE>>, <<FALSE, TRUE>>, <<FALSE, FALSE>>}
AnalyseOutcomes == {<<TRUE>>, <<FALSE>>, <<TRUE, FALSE>>}
SaveOutcomes == {<<TRUE>>, <<FALSE, TRUE>>, <<FALSE, FALSE>>}

Resumes(filenames) ==
    {Resume(f, pa, an, sv) :
        f \in filenames, pa \in ParseOutcomes, an \in AnalyseOutcomes,
        sv \in SaveOutcomes}

FirstResumes ==
    {Resume("cv.pdf", pa, an, sv) :
        pa \in {<<TRUE>>, <<FALSE, FALSE>>}, an \in {<<TRUE>>, <<FALSE>>},
        sv \in {<<TRUE>>, <<FALSE, FALSE>>}}

Batches ==
    {<<>>}
    \cup {<<r>> : r \in Resumes({"cv.pdf"})}
    \cup {<<r1, r2>> : r1 \in FirstResumes, r2 \in Resumes({"cv.pdf", "b.docx"})}

InitAnalyse ==
    /\ db = EmptyDB
    /\ prev = db
    /\ resp = NoResp
    /\ pending = {}
    /\ saveLog = <<>>
    /\ now = 0
    /\ issued = <<>>

NextAnalyse ==
    \E batch \in Batches, hasDescription \in BOOLEAN :
        Len(batch) <= MaxBatch /\ AnalyseSavePOST(batch, hasDescription)

SpecAnalyse == InitAnalyse /\ [][NextAnalyse]_vars

\* the resumes of the answered request, and membership in a list of the answer
AnswerRange(list) == {list[k] : k \in DOMAIN list}

\* C16: in a batch request, a parsing failure or an LLM-analysis failure for
\* one resume is recorded as a failed entry for that resume and does not abort
\* the batch: the request answers with success, lists that resume in failed,
\* and every other resume that parses, is analysed and is stored is listed in
\* saved.
C16_FailureDoesNotAbortBatch ==
    (resp.op = "AnalyseSavePOST" /\ resp.doc # NoDoc)
    => LET out == resp.doc
           batch == out.batch
           Broken(i) == ~Parsed(batch[i]) \/ ~Outcome(batch[i].analyse, 1)
       IN  /\ out.status = 200 /\ out.success
           /\ \A i \in DOMAIN batch :
                  /\ Broken(i) => i \in AnswerRange(out.failed)
                  /\ (~Broken(i) /\ Outcome(batch[i].save, 1))
                     => i \in AnswerRange(out.saved)

\* C17: every resume whose parse or save fails is tried exactly once more; one
\* that fails again is reported in failed; no resume is parsed or saved more
\* than twice.
C17_OneRetryPerItem ==
    (resp.op = "AnalyseSavePOST" /\ resp.doc # NoDoc)
    => LET out == resp.doc
           batch == out.batch
       IN  \A i \in DOMAIN batch :
               /\ out.parses[i] <= 2 /\ out.saves[i] <= 2
               /\ out.parses[i] = (IF Outcome(batch[i].parse, 1) THEN 1 ELSE 2)
               /\ out.status = 200
                  => /\ ~Parsed(batch[i]) => i \in AnswerRange(out.failed)
                     /\ (Parsed(batch[i]) /\ ~Outcome(batch[i].save, 1))
                        => /\ out.saves[i] = 2
                           /\ ~Outcome(batch[i].save, 2)
                              => i \in AnswerRange(out.failed)


\* the number of entries of a list of the answer that were made for resume i
EntriesFor(list, i) == Cardinality({k \in DOMAIN list : list[k] = i})

DistinctFilenames(batch) ==
    \A i, j \in DOMAIN batch : i # j => batch[i].filename # batch[j].filename

\* C29: when a batch request answers with success, the number of entries in
\* saved plus the number of entries in failed equals the number of uploaded
\* files; and when the files carry different names, every file has exactly
\* one entry in saved or failed.
C29_EveryFileAccountedFor ==
    (resp.op = "AnalyseSavePOST" /\ resp.doc # NoDoc /\ resp.doc.success)
    => LET out == resp.doc
       IN  /\ Len(out.saved) + Len(out.failed) = Len(out.batch)
           /\ DistinctFilenames(out.batch)
              => \A i \in DOMAIN out.batch :
                    EntriesFor(out.saved, i) + EntriesFor(out.failed, i) = 1

\* C29 witness: a success answer for two files that lists one as saved and the
\* other, whose save failed twice, as failed
C29_Witness ==
    /\ resp.op = "AnalyseSavePOST" /\ resp.doc # NoDoc /\ resp.doc.success
    /\ Len(resp.doc.batch) = 2
    /\ Len(resp.doc.saved) = 1 /\ Len(resp.doc.failed) = 1
    /\ \E i \in DOMAIN resp.doc.batch : resp.doc.saves[i] = 2

\* C30: when the save of a file's analysis fails and is retried, the retry
\* analyses and saves that same file again, also when several files carry the
\* same filename: in a success answer every file whose first save failed was
\* analysed and saved a second time, and no file whose first save succeeded
\* was saved again.
C30_RetrySavesSameFile ==
    (resp.op = "AnalyseSavePOST" /\ resp.doc # NoDoc /\ resp.doc.success)
    => LET out == resp.doc
           batch == out.batch
       IN  \A i \in DOMAIN batch :
              Parsed(batch[i])
              => IF Outcome(batch[i].save, 1)
                 THEN out.saves[i] = 1 /\ out.analysed[i] = 1
                 ELSE out.saves[i] = 2 /\ out.analysed[i] = 2


\* C24: a candidate creation request with a valid body, an email used by no
\* existing Candidate and no stage-participation entries returns 201, and
\* afterwards exactly one Candidate with that email exists together with one
\* ActivityLog entry recording its creation.
C24_ValidCreationSucceeds ==
    [][\A r \in pending :
          (/\ CandidatePOSTSave(r)
           /\ r.body.stages = NoArray
           /\ ~EmailInUse(db, r.body.email))
          => /\ resp'.status = 201
             /\ Cardinality({x \in db'.candidates : x.email = r.body.email}) = 1
             /\ Cardinality({l \in db'.activityLogs \ db.activityLogs :
                                l.action = "create"
                                /\ l.targetId = resp'.doc.id}) = 1]_vars


-----------------------------------------------------------------------------
\* Department creation (POST of the department collection route)

\* a seeded database whose departments carry the paths of DepartmentSchema
DepartmentSeedDB ==
    [SeedDB EXCEPT
        !.departments = {[id |-> "d1", name |-> "Engineering",
                          description |-> "builds", hiringManagerId |-> MockUserId],
                         [id |-> "d2", name |-> "Sales",
                          description |-> "sells", hiringManagerId |-> "u2"]}]

\* one entry of the jobs list; maxOpenings is optional
JobData(title) == [title |-> title]
JobDataOpenings(title, maxOpenings) == [title |-> title, maxOpenings |-> maxOpenings]

DepartmentBody(name, description, jobs) ==
    [name |-> name, description |-> description, jobs |-> jobs]

\* the zod JobSchema of the route: a title, and maxOpenings >= 1 when given
JobDataSchema(jobData) ==
    /\ jobData.title # ""
    /\ "maxOpenings" \in DOMAIN jobData => jobData.maxOpenings >= 1

\* the zod DepartmentSchema of the route; jobs is optional
DepartmentSchema(body) ==
    /\ body.name # ""
    /\ body.description # ""
    /\ body.jobs # NoArray
       => \A k \in DOMAIN body.jobs[1] : JobDataSchema(body.jobs[1][k])

\* the first of the required paths that a document lacks, as the error of
\* mongoose's validation; NoError when it has them all
RequiredPaths(doc, paths) ==
    LET missing == {k \in DOMAIN paths : paths[k] \notin DOMAIN doc}
    IN  IF missing = {} THEN NoError
        ELSE <<"Validation error",
               paths[CHOOSE k \in missing : \A m \in missing : k <= m]>>

\* the mongoose DepartmentSchema: name, description and hiringManagerId are
\* required
DepartmentValidate(doc) ==
    RequiredPaths(doc, <<"name", "description", "hiringManagerId">>)

\* DepartmentSchema.index({name: 1}, {unique: true})
DepartmentInsertError(t, doc) ==
    IF \E x \in t.departments : x.name = doc.name THEN DuplicateKey ELSE NoError

\* DepartmentSchema.pre("save"): User.findById(department.hiringManagerId)
DepartmentPreSave(d, department) ==
    IF ~Exists(d, "users", department.hiringManagerId)
    THEN <<"Invalid hiringManagerId">>
    ELSE NoError

\* document.save({session}) of a Department: validation, then the hook, which
\* reads outside the transaction, then the insert into the transaction
DepartmentSaveError(c, t, doc) ==
    IF DepartmentValidate(doc) # NoError THEN DepartmentValidate(doc)
    ELSE IF DepartmentPreSave(c, doc) # NoError THEN DepartmentPreSave(c, doc)
    ELSE DepartmentInsertError(t, doc)

\* the paths JobSchema requires and gives no default
JobDocValidate(doc) ==
    RequiredPaths(doc, <<"title", "departmentId", "hiringManagerId",
                         "hiringPipelineId", "workLocation", "headCount",
                         "minimumSalary", "maximumSalary", "jobDescription">>)

\* document.save({session}) of a Job
JobSaveError(c, doc) ==
    IF JobDocValidate(doc) # NoError THEN JobDocValidate(doc)
    ELSE IF JobValidate(doc) # NoError THEN JobValidate(doc)
    ELSE JobPreSave(c, doc)

NewDepartmentId(d) == "dn" \o ToString(Cardinality(d.departments) + 1)

\* new Job({...jobData, departmentId: department._id}): title and departmentId
\* are the schema paths among these; the others are dropped
NewJobDoc(t, jobData, departmentId) ==
    [id |-> NewJobId(t), title |-> jobData.title, departmentId |-> departmentId]

\* the loop over jobs: each is saved into the transaction until one fails
RECURSIVE SaveJobs(_, _, _)
SaveJobs(st, jobs, departmentId) ==
    IF st.error # NoError \/ jobs = <<>> THEN st
    ELSE LET doc == NewJobDoc(st.t, Head(jobs), departmentId)
             err == JobSaveError(st.c, doc)
         IN  SaveJobs(IF err # NoError THEN Failed(st, 500, err)
                      ELSE Going(Insert(st.t, "jobs", doc), st.c),
                      Tail(jobs), departmentId)

\* POST: new Department({name, description, createdById: user.id}); createdById
\* is no path of the schema and hiringManagerId is not given
DepartmentPOST(user, body) ==
    LET department == [id |-> NewDepartmentId(db), name |-> body.name,
                       description |-> body.description]
        jobs == IF body.jobs = NoArray THEN <<>> ELSE body.jobs[1]
        err == DepartmentSaveError(db, db, department)
        s1 == IF err # NoError THEN Failed(Going(db, db), 500, err)
              ELSE Going(Insert(db, "departments", department), db)
        s2 == SaveJobs(s1, jobs, department.id)
        R(status, error) ==
            RespDoc("DepartmentPOST", department.id, status, error, user, NoRef, body)
    IN  /\ prev' = db
        /\ UNCHANGED <<pending, saveLog, now, issued>>
        /\ IF user = NoUser
           THEN db' = db /\ resp' = R(401, <<"Unauthorized">>)
           ELSE IF ~hasPermission(db, user, "edit_jobs")
           THEN db' = db /\ resp' = R(403, <<"Forbidden: Insufficient permissions">>)
           ELSE IF ~DepartmentSchema(body)
           THEN db' = db /\ resp' = R(400, <<"Validation error">>)
           ELSE IF s2.error # NoError
           THEN db' = s2.c /\ resp' = R(500, s2.error)        \* abortTransaction
           ELSE db' = s2.t /\ resp' = R(201, NoError)         \* commitTransaction

\* SpecDepartment: department creation requests on a seeded database
JobLists ==
    {<<>>, <<JobData("Dev")>>, <<JobData("")>>,
     <<JobDataOpenings("Dev", 2)>>, <<JobDataOpenings("Dev", 0)>>,
     <<JobData("Dev"), JobData("QA")>>, <<JobData("Dev"), JobData("")>>}

DepartmentBodies ==
    {DepartmentBody(n, d, j) :
        n \in {"", "Ops", "Sales"}, d \in {"", "runs"},
        j \in {NoArray} \cup {Array(l) : l \in JobLists}}

InitDepartment ==
    /\ db = DepartmentSeedDB
    /\ prev = db
    /\ resp = NoResp
    /\ pending = {}
    /\ saveLog = <<>>
    /\ now = 0
    /\ issued = <<>>

NextDepartment ==
    \E u \in SessionUsers, body \in DepartmentBodies : DepartmentPOST(u, body)

SpecDepartment == InitDepartment /\ [][NextDepartment]_vars

\* the jobs of a request, <<>> when the body carries none
JobListOf(body) == IF body.jobs = NoArray THEN <<>> ELSE body.jobs[1]

\* C18: a department creation request that carries a list of jobs is atomic:
\* on a success response the Department and all listed Jobs are stored, on an
\* error response neither the Department nor any listed Job is stored; and a
\* request with a valid department and valid jobs, made by a user who may
\* create departments, gets the success response.
C18_DepartmentCreateAtomic ==
    (resp.op = "DepartmentPOST" /\ JobListOf(resp.doc) # <<>>)
    => LET body == resp.doc
           jobs == JobListOf(body)
           created == {j \in db.jobs \ prev.jobs : j.departmentId = resp.target}
       IN  /\ resp.status = 201
              => /\ Exists(db, "departments", resp.target)
                 /\ Cardinality(created) = Len(jobs)
           /\ resp.status # 201 => db = prev
           /\ (/\ hasPermission(prev, resp.from, "edit_jobs")
               /\ DepartmentSchema(body)
               /\ ~\E x \in prev.departments : x.name = body.name)
              => resp.status = 201


-----------------------------------------------------------------------------
\* Detail reads (GET of the candidate [id] route and of the pipeline [id] route)

\* candidates.length === 0 / !pipeline.length: the $match stage found nothing
NoneFound_Never(matches) == FALSE

NoneFound(matches) == matches = {}

\* $lookup from hiringstages followed by $unwind with
\* preserveNullAndEmptyArrays: the stage's name, absent when no stage has the id
StageName(d, stageId) ==
    LET stage == FindById(d, "stages", stageId)
    IN  IF stage = {} THEN Absent ELSE (CHOOSE x \in stage : TRUE).name

\* the aggregation on Candidate: one result per matching candidate, with the
\* attachments, interviews, stage participation and skills that carry its id
CandidateAggregate(d, candidateId) ==
    {[candidate |-> c.id,
      attachments |-> {a.id : a \in {x \in d.attachments : x.candidateId = c.id}},
      interviews |-> {[id |-> iv.id, stage |-> StageName(d, iv.stageId)] :
                         iv \in {x \in d.interviews : x.candidateId = c.id}},
      stageParticipation |-> {[stageId |-> sp.stageId,
                               stage |-> StageName(d, sp.stageId)] :
                                 sp \in {x \in d.stageParticipants :
                                            x.candidateId = c.id}},
      skills |-> {k.skill : k \in {x \in d.candidateSkills : x.candidateId = c.id}}] :
        c \in FindById(d, "candidates", candidateId)}

\* GET of a candidate: the response carries candidates[0]
CandidateGET(id) ==
    LET candidates == CandidateAggregate(db, id)
        R(status, error, doc) ==
            RespDoc("CandidateGET", id, status, error, NoRef, NoRef, doc)
    IN  /\ prev' = db
        /\ db' = db
        /\ UNCHANGED <<pending, saveLog, now, issued>>
        /\ IF ~isValidObjectId(id)
           THEN resp' = R(400, <<"Invalid candidate ID">>, {})
           ELSE IF NoneFound(candidates)
           THEN resp' = R(404, <<"Candidate not found">>, {})
           ELSE resp' = R(200, NoError, candidates)

\* the aggregation on HiringPipeline: the creator, absent when no user has the
\* id, and the stages that carry the pipeline's id
PipelineAggregate(d, pipeId) ==
    {[pipeline |-> p.id,
      createdBy |-> IF Exists(d, "users", p.createdById) THEN p.createdById
                    ELSE Absent,
      hiringProcessStages |-> {st.id : st \in {x \in d.stages : x.pipelineId = p.id}},
      stageCount |-> Cardinality({x \in d.stages : x.pipelineId = p.id})] :
        p \in FindById(d, "pipelines", pipeId)}

\* GET of a pipeline: the response carries pipeline[0]
PipelineGET(pipeId) ==
    LET pipeline == PipelineAggregate(db, pipeId)
        R(status, error, doc) ==
            RespDoc("PipelineGET", pipeId, status, error, NoRef, NoRef, doc)
    IN  /\ prev' = db
        /\ db' = db
        /\ UNCHANGED <<pending, saveLog, now, issued>>
        /\ IF ~isValidObjectId(pipeId)
           THEN resp' = R(400, <<"Invalid ID format">>, {})
           ELSE IF NoneFound(pipeline)
           THEN resp' = R(404, <<"Pipeline not found">>, {})
           ELSE resp' = R(200, NoError, pipeline)

\* SpecRead: detail reads between deletions of candidates, pipelines and stages
InitRead ==
    /\ \E us \in UserSeeds : db = [SeedDB EXCEPT !.users = us]
    /\ prev = db
    /\ resp = NoResp
    /\ pending = {}
    /\ saveLog = <<>>
    /\ now = 0
    /\ issued = <<>>

NextRead ==
    \/ \E id \in {"c1", "c2", "c9", NotAnId} : CandidateGET(id)
    \/ \E id \in {"p1", "p2", "p9", NotAnId} : PipelineGET(id)
    \/ \E id \in {"c1", "c2"} : CandidateDELETE(id)
    \/ \E u \in SessionUsers, id \in {"p1", "p2"} : PipelineDELETE(u, id, 0)
    \/ \E coll \in {"pipelines", "stages"} : \E doc \in db[coll] :
          DocumentDeleteOne(coll, doc)

SpecRead == InitRead /\ [][NextRead]_vars

\* the collection a detail read matches its id in
ReadCollection ==
    [op \in {"CandidateGET", "PipelineGET"} |->
        IF op = "CandidateGET" THEN "candidates" ELSE "pipelines"]

\* a detail read has answered a well-formed id that no document carries
ReadOfMissing ==
    /\ resp.op \in DOMAIN ReadCollection
    /\ isValidObjectId(resp.target)
    /\ ~Exists(prev, ReadCollection[resp.op], resp.target)

\* C19 as stated: a candidate or pipeline detail read for an id whose document
\* does not exist returns an empty result and not an error response.
C19_MissingParentGivesEmptyResult ==
    ReadOfMissing => resp.status = 200 /\ resp.error = NoError

\* C19: a candidate or pipeline detail read changes nothing; for an id whose
\* document does not exist it answers 404 "not found" and carries no result;
\* for an id whose document exists it answers 200 with that document and the
\* dependents that carry its id, and a dependent whose stage or creator does
\* not exist is listed with that part absent.
C19_MissingDocumentIsNotFound ==
    resp.op \in DOMAIN ReadCollection
    => /\ db = prev
       /\ ReadOfMissing => resp.status = 404 /\ resp.doc = {}
       /\ Exists(prev, ReadCollection[resp.op], resp.target)
          => /\ resp.status = 200
             /\ Cardinality(resp.doc) = 1
             /\ resp.op = "CandidateGET"
                => \A v \in resp.doc :
                      /\ v.candidate = resp.target
                      /\ Cardinality(v.interviews) =
                            Cardinality({x \in prev.interviews :
                                            x.candidateId = resp.target})
                      /\ \A iv \in v.interviews :
                            iv.stage = Absent
                            <=> \E x \in prev.interviews :
                                   x.id = iv.id /\ ~Exists(prev, "stages", x.stageId)
             /\ resp.op = "PipelineGET"
                => \A v \in resp.doc :
                      /\ v.pipeline = resp.target
                      /\ v.stageCount = Cardinality(v.hiringProcessStages)
                      /\ v.createdBy = Absent
                         <=> \E p \in prev.pipelines :
                                p.id = resp.target /\ ~Exists(prev, "users", p.createdById)

\* C19 witness: a read of a deleted candidate or pipeline was answered 404
C19_Witness ==
    /\ ReadOfMissing
    /\ Exists(SeedDB, ReadCollection[resp.op], resp.target)
    /\ resp.status = 404

-----------------------------------------------------------------------------
\* Job update between other requests (PATCH of the job [id] route, step by step)

\* "Validate references if updating": the three lookups of PATCH, each a round
\* trip to the database of its own; NoError when the request passes them
JobPATCHReferences(d, body, userId) ==
    LET pipeline == FindById(d, "pipelines", body.pipelineId)
    IN  IF body.hiringManagerId # Absent /\ ~Exists(d, "users", body.hiringManagerId)
        THEN <<"Invalid hiring manager ID">>
        ELSE IF body.departmentId # Absent /\ ~Exists(d, "departments", body.departmentId)
        THEN <<"Invalid department ID">>
        ELSE IF body.pipelineId # Absent /\ pipeline = {}
        THEN <<"Invalid pipeline ID">>
        ELSE IF /\ body.pipelineId # Absent
                /\ \E pl \in pipeline :
                       pl.createdById # (IF body.hiringManagerId # Absent
                                         THEN body.hiringManagerId ELSE userId)
        THEN <<"Pipeline does not belong to the specified hiring manager">>
        ELSE NoError

\* $set: updatePayload applied to a stored job
JobUpdateSet(j, body) ==
    [j EXCEPT
        !.minimumSalary = IF body.minimumSalary # NoSalary
                          THEN body.minimumSalary ELSE @,
        !.maximumSalary = IF body.maximumSalary # NoSalary
                          THEN body.maximumSalary ELSE @,
        !.departmentId = IF body.departmentId # Absent THEN body.departmentId ELSE @,
        !.hiringPipelineId = IF body.pipelineId # Absent THEN body.pipelineId ELSE @,
        !.hiringManagerId = IF body.hiringManagerId # Absent
                            THEN body.hiringManagerId ELSE @]

\* PATCH, first part: the input checks and the reference lookups.  No
\* transaction spans the lookups and the update, so other requests may run
\* between them.
JobPATCHLookup(id, body) ==
    LET err == JobPATCHReferences(db, body, MockUserId)
        n == Cardinality(pending)
        R(status, error) ==
            RespDoc("JobPATCHLookup", id, status, error, NoRef, NoRef, body)
    IN  /\ prev' = db
        /\ db' = db
        /\ UNCHANGED <<saveLog, now, issued>>
        /\ IF ~isValidObjectId(id)
           THEN pending' = pending /\ resp' = R(400, <<"Invalid Job ID">>)
           ELSE IF ~SalaryRefine(body)
           THEN pending' = pending /\ resp' = R(422, <<"Validation Error">>)
           ELSE IF err # NoError
           THEN pending' = pending /\ resp' = R(500, err)
           ELSE /\ n < MaxInFlight
                /\ pending' = pending \cup {[id |-> id, body |-> body, n |-> n + 1]}
                /\ resp' = R(0, NoError)

\* PATCH, second part: Job.findOneAndUpdate({_id, hiringManagerId: userId},
\* {$set: updatePayload}, {new: true, runValidators: true})
JobPATCHUpdate(r) ==
    LET found == {j \in db.jobs : j.id = r.id /\ j.hiringManagerId = MockUserId}
        invalid == JobUpdateValidate(r.body)
        R(status, error) ==
            RespDoc("JobPATCHUpdate", r.id, status, error, NoRef, NoRef, r.body)
    IN  /\ r \in pending
        /\ pending' = pending \ {r}
        /\ prev' = db
        /\ UNCHANGED <<saveLog, now, issued>>
        /\ IF invalid # NoError THEN db' = db /\ resp' = R(500, invalid)
           ELSE IF found = {}
           THEN db' = db /\ resp' = R(404, <<"Job not found or unauthorized">>)
           ELSE /\ db' = [db EXCEPT !.jobs = (@ \ found)
                                       \cup {JobUpdateSet(j, r.body) : j \in found}]
                /\ resp' = R(200, NoError)

\* SpecRefs: job updates, job deletions and department and pipeline deletions,
\* interleaved, on the seeded database of SpecDelete
RefBodies ==
    {JobBody(Absent, d, p, NoSalary, NoSalary) :
        d \in {Absent, "d3", "d9"}, p \in {Absent, "p3", "p9"}}

InitRefs ==
    /\ db = DeleteSeedDB
    /\ prev = db
    /\ resp = NoResp
    /\ pending = {}
    /\ saveLog = <<>>
    /\ now = 0
    /\ issued = <<>>

NextRefs ==
    \/ \E id \in {"j1", NotAnId}, body \in RefBodies : JobPATCHLookup(id, body)
    \/ \E r \in pending : JobPATCHUpdate(r)
    \/ \E u \in {MockUserId, "u2"}, id \in {"d1", "d3"} : DepartmentDELETE(u, id, 0)
    \/ \E u \in {MockUserId, "u2"}, id \in {"p1", "p3"} : PipelineDELETE(u, id, 0)
    \/ \E id \in {"j1", "j2"} : JobDELETE(TRUE, id, 0)

SpecRefs == InitRefs /\ [][NextRefs]_vars

-----------------------------------------------------------------------------
\* Pipeline creation (POST of the pipeline collection route)

\* pipelines a run may create
MaxNewPipelines == 2

PipelineStatus == {"upcoming", "ongoing", "completed"}

CreatePipelineBody(name, description, status) ==
    [name |-> name, description |-> description, status |-> status]

\* the zod PipelineSchema of the route: name, description and status are
\* required
PipelineSchema(body) ==
    /\ body.name # ""
    /\ body.description # ""
    /\ body.status \in PipelineStatus

NewPipelineId(d) == "pn" \o ToString(Cardinality(d.pipelines) + 1)

\* User.findById(userId).populate({path: "roleId", populate: {path:
\* "permissions", model: "RolePermission"}}) in hasPermission of the pipeline
\* routes and of the department [id] route: RoleSchema has no path "permissions".  A mongoose that enforces
\* strictPopulate rejects the query for a user whose role is found, and the
\* handler's catch answers 500; an older one populates nothing and goes on.
StrictPopulateError == <<"Cannot populate path roleId.permissions">>

PopulateRejected(op, user, target) ==
    /\ user # NoUser
    /\ Exists(db, "users", user)
    /\ prev' = db
    /\ db' = db
    /\ UNCHANGED <<pending, saveLog, now, issued>>
    /\ resp' = Resp(op, target, 500, StrictPopulateError, user, NoRef)

\* POST: pipeline.save() without a transaction, then ActivityLog.create with
\* targetType: TargetType.HiringPipeline
PipelinePOST(user, body) ==
    LET pipeline == [id |-> NewPipelineId(db), createdById |-> user]
        saveErr == HiringPipelinePreSave(db, pipeline)
        saved == Insert(db, "pipelines", pipeline)
        log == Log(user, "create", Undefined, pipeline.id)
        logErr == ActivityLogPreSave(saved, log)
        R(status, error) ==
            RespDoc("PipelinePOST", pipeline.id, status, error, user, NoRef, body)
    IN  /\ Cardinality(db.pipelines) < Cardinality(SeedDB.pipelines) + MaxNewPipelines
        /\ prev' = db
        /\ UNCHANGED <<pending, saveLog, now, issued>>
        /\ IF user = NoUser
           THEN db' = db /\ resp' = R(401, <<"Unauthorized">>)
           ELSE IF ~hasPermission(db, user, "edit_jobs")
           THEN db' = db /\ resp' = R(403, <<"Forbidden: Insufficient permissions">>)
           ELSE IF ~PipelineSchema(body)
           THEN db' = db /\ resp' = R(400, <<"Validation error">>)
           ELSE IF saveErr # NoError
           THEN db' = db /\ resp' = R(500, saveErr)
           ELSE IF logErr # NoError
           THEN db' = saved /\ resp' = R(500, logErr)
           ELSE /\ db' = Insert(saved, "activityLogs", log)
                /\ resp' = R(201, NoError)

\* SpecPipelineCreate: pipeline creation requests on the seeded database
CreatePipelineBodies ==
    {CreatePipelineBody(n, d, st) :
        n \in {"", "Hiring", "Campus"}, d \in {"", "steps"},
        st \in {"upcoming", "completed", "open"}}

InitPipelineCreate ==
    /\ db = SeedDB
    /\ prev = db
    /\ resp = NoResp
    /\ pending = {}
    /\ saveLog = <<>>
    /\ now = 0
    /\ issued = <<>>

NextPipelineCreate ==
    \/ \E u \in SessionUsers, body \in CreatePipelineBodies : PipelinePOST(u, body)
    \/ \E u \in SessionUsers :
          PopulateRejected("PipelinePOST", u, NewPipelineId(db))

SpecPipelineCreate == InitPipelineCreate /\ [][NextPipelineCreate]_vars

-----------------------------------------------------------------------------
\* Department update (PUT of the department [id] route)

\* one entry of the jobs list of an update; id is Absent for a job to create
JobEntry(id, title) == [id |-> id, title |-> title]

UpdateDepartmentBody(name, jobs) == [name |-> name, jobs |-> jobs]

\* UpdateDepartmentSchema: DepartmentSchema.partial() with at least one key
UpdateDepartmentSchema(body) ==
    /\ body.name # ""
    /\ body.name # Absent \/ body.jobs # NoArray
    /\ body.jobs # NoArray
       => \A k \in DOMAIN body.jobs[1] :
             /\ JobDataSchema(body.jobs[1][k])
             /\ isValidObjectId(body.jobs[1][k].id)

\* "Create or update jobs": a listed job of the department is loaded and
\* saved, any other entry becomes a new Job
RECURSIVE PutJobs(_, _, _, _)
PutJobs(st, jobs, deptId, existingJobIds) ==
    IF st.error # NoError \/ jobs = <<>> THEN st
    ELSE LET jobData == Head(jobs)
             job == FindById(st.t, "jobs", jobData.id)
             doc == IF jobData.id \in existingJobIds /\ job # {}
                    THEN CHOOSE j \in job : TRUE
                    ELSE NewJobDoc(st.t, jobData, deptId)
             err == IF jobData.id \in existingJobIds /\ job # {}
                    THEN IF JobValidate(doc) # NoError THEN JobValidate(doc)
                         ELSE JobPreSave(st.c, doc)
                    ELSE JobSaveError(st.c, doc)
         IN  PutJobs(IF err # NoError THEN Failed(st, 500, err)
                     ELSE Going(Insert(st.t, "jobs", doc), st.c),
                     Tail(jobs), deptId, existingJobIds)

\* PUT of a department
DepartmentPUT(user, deptId, body) ==
    LET g == Guard(user, deptId)
        found == FindById(db, "departments", deptId)
        department == CHOOSE x \in found : TRUE
        changed == [department EXCEPT
                       !.name = IF body.name # Absent THEN body.name ELSE @]
        list == IF body.jobs = NoArray THEN <<>> ELSE body.jobs[1]
        existingJobs == {j \in db.jobs : j.departmentId = deptId}
        existingJobIds == {j.id : j \in existingJobs}
        newJobIds == {list[k].id : k \in DOMAIN list} \ {Absent}
        jobsToDelete == {j \in existingJobs : j.id \notin newJobIds}
        s1 == Going(IF body.jobs = NoArray THEN db
                    ELSE DeleteWhere(db, "jobs", jobsToDelete), db)
        s2 == PutJobs(s1, list, deptId, existingJobIds)
        saveErr == DepartmentSaveError(s2.c, DeleteWhere(s2.t, "departments", found),
                                       changed)
        s3 == IF s2.error # NoError THEN s2
              ELSE IF saveErr # NoError THEN Failed(s2, 500, saveErr)
              ELSE Going(Replace(s2.t, "departments", department, changed), s2.c)
        R(status, error) ==
            RespDoc("DepartmentPUT", deptId, status, error, user, NoRef, body)
    IN  /\ prev' = db
        /\ UNCHANGED <<pending, saveLog, now, issued>>
        /\ IF g # NoError THEN db' = db /\ resp' = R(g[1], <<g[2]>>)
           ELSE IF ~UpdateDepartmentSchema(body)
           THEN db' = db /\ resp' = R(400, <<"Validation error">>)
           ELSE IF found = {}
           THEN db' = db /\ resp' = R(404, <<"Department not found">>)
           ELSE IF s3.error # NoError
           THEN db' = s3.c /\ resp' = R(500, s3.error)       \* abortTransaction
           ELSE db' = s3.t /\ resp' = R(200, NoError)        \* commitTransaction

-----------------------------------------------------------------------------
\* The permission guard of the department and pipeline routes

\* SpecGuard: create, update and delete requests for departments and
\* pipelines by a visitor, a user with edit_jobs and a user without it
GuardDepartmentBodies ==
    {DepartmentBody(n, "runs", j) :
        n \in {"", "Ops"}, j \in {NoArray, Array(<<JobData("Dev")>>)}}

GuardUpdateBodies ==
    {UpdateDepartmentBody(n, j) :
        n \in {Absent, "Ops"},
        j \in {NoArray, Array(<<>>), Array(<<JobEntry("j1", "Dev")>>)}}

GuardPipelineBodies ==
    {PipelineBody(Absent, c, NoArray) : c \in {"u2", "u9"}}
    \cup {PipelineBody(Absent, Absent, Array(<<>>))}

GuardCreatePipelineBodies ==
    {CreatePipelineBody(n, "steps", "upcoming") : n \in {"", "Hiring"}}

\* the requests of one session user, whatever else they carry
DepartmentRequest(u) ==
    \/ \E body \in GuardDepartmentBodies : DepartmentPOST(u, body)
    \/ \E id \in {"d1", "d2"}, body \in GuardUpdateBodies : DepartmentPUT(u, id, body)
    \/ \E id \in {"d1", "d2"} : DepartmentDELETE(u, id, 0)

PipelineRequest(u) ==
    \/ \E body \in GuardCreatePipelineBodies : PipelinePOST(u, body)
    \/ \E id \in {"p1", "p2"}, body \in GuardPipelineBodies : PipelinePUT(u, id, body)
    \/ \E id \in {"p1", "p2"} : PipelineDELETE(u, id, 0)

\* a request to a route whose hasPermission populates roleId.permissions, on
\* a build that rejects the populate
RejectedRequest(u) ==
    \/ \E id \in {"d1", "d2"}, op \in {"DepartmentPUT", "DepartmentDELETE"} :
          PopulateRejected(op, u, id)
    \/ \E id \in {"p1", "p2"}, op \in {"PipelinePUT", "PipelineDELETE"} :
          PopulateRejected(op, u, id)
    \/ PopulateRejected("PipelinePOST", u, NewPipelineId(db))

InitGuard ==
    /\ db = DepartmentSeedDB
    /\ prev = db
    /\ resp = NoResp
    /\ pending = {}
    /\ saveLog = <<>>
    /\ now = 0
    /\ issued = <<>>

NextGuard ==
    \/ \E u \in SessionUsers : DepartmentRequest(u)
    \/ \E u \in SessionUsers : PipelineRequest(u)
    \/ \E u \in SessionUsers : RejectedRequest(u)

SpecGuard == InitGuard /\ [][NextGuard]_vars

\* C23: department and pipeline create, update and delete requests change
\* stored data only when the session user's role has edit_jobs; a request
\* without a session user gets 401, a request from a user without the
\* permission gets 403, and in both cases nothing is created, modified or
\* deleted.
C23_OnlyEditJobsChangesData ==
    [][\A u \in SessionUsers :
          (DepartmentRequest(u) \/ PipelineRequest(u) \/ RejectedRequest(u))
          => /\ u = NoUser => resp'.status = 401 /\ db' = db
             /\ (u # NoUser /\ ~hasPermission(db, u, "edit_jobs"))
                => resp'.status = 403 /\ db' = db
             /\ db' # db => hasPermission(db, u, "edit_jobs")]_vars

-----------------------------------------------------------------------------
\* Registration and e-mail verification (user/register and user/verify
\* routes, the signIn callback of auth.ts)

\* last hour the clock reaches; codes hyperid generates in a run
MaxClock == 2
MaxCodes == 2

\* 60 * 60 * 1000 ms, in hours
OneHour == 1

RoleName == {"admin", "hiringManager", "interviewer"}

UserStatus == {"unverified", "verified", "suspended"}

\* the roles exist; nobody has registered yet
AccountSeedDB ==
    [EmptyDB EXCEPT !.roles = {[id |-> "r1", name |-> "admin"],
                               [id |-> "r2", name |-> "hiringManager"]}]

RegisterBody(name, email, password, roleName) ==
    [name |-> name, email |-> email, password |-> password, roleName |-> roleName]

\* the zod userSchema, and the password test of the handler
userSchema(body) ==
    /\ body.name # ""
    /\ body.email # NotAnEmail
    /\ body.roleName \in RoleName
    /\ body.password # ""

\* bcrypt.hashSync(password, 10)
hashSync(password) == "hash:" \o password

\* hyperid({urlSafe: true}).uuid: a code no earlier call has returned
hyperid == "c" \o ToString(Len(issued) + 1)

NewUserId(d) == "n" \o ToString(Cardinality(d.users) + 1)

FindByEmail(d, email) == {u \in d.users : u.email = email}

\* Credential.findOne({userId})
CredentialOf(d, userId) == {c \in d.credentials : c.userId = userId}

\* UserSchema.pre("save"): the role must exist
UserPreSave(d, user) ==
    IF Exists(d, "roles", user.roleId) THEN NoError ELSE <<"Invalid roleId">>

\* CredentialSchema.pre("save"): the user must exist
CredentialPreSave(d, credential) ==
    IF Exists(d, "users", credential.userId) THEN NoError ELSE <<"Invalid userId">>

\* the write of the request that the database refuses: 0 none, 1 the User
\* write, 2 the Credential write, 3 the e-mail transport
WriteFailures == 0..3

\* one entry of issued: the code, the user it was generated for (NoRef when
\* the user was not stored), the hour, whether the code was written to the
\* user's Credential, and whether a verify request has succeeded with it
Issue(code, userId, stored) ==
    [code |-> code, userId |-> userId, at |-> now, stored |-> stored, used |-> FALSE]

\* POST of the register route
RegisterPOST(body, fail) ==
    LET R(status, error) ==
            RespDoc("RegisterPOST", body.email, status, error, NoRef, NoRef, body)
        role == {r \in db.roles : r.name = body.roleName}
        existing == FindByEmail(db, body.email)
        verifyCode == hyperid
        mailErr == IF fail = 3 THEN <<"Failed to send verification email">>
                   ELSE NoError
    IN  /\ prev' = db
        /\ UNCHANGED <<pending, saveLog, now>>
        /\ IF ~userSchema(body)
           THEN /\ db' = db /\ issued' = issued
                /\ resp' = R(400, <<"Invalid data format">>)
           ELSE IF role = {}
           THEN /\ db' = db /\ issued' = issued
                /\ resp' = R(500, <<"role not found">>)
           ELSE IF \E u \in existing : u.status = "verified"
           THEN /\ db' = db /\ issued' = issued
                /\ resp' = R(400, <<"User with this email already exists and is verified">>)
           ELSE IF existing # {}
           THEN \* an existing user who is not verified: name, password and
                \* code are replaced by two saves that run side by side
                LET existingUser == CHOOSE u \in existing : TRUE
                    creds == CredentialOf(db, existingUser.id)
                IN  /\ Len(issued) < MaxCodes
                    /\ IF creds = {}
                       THEN /\ db' = db
                            /\ issued' = Append(issued,
                                   Issue(verifyCode, existingUser.id, FALSE))
                            /\ resp' = R(500, <<"Credential not found for existing user">>)
                       ELSE LET existingCredential == CHOOSE c \in creds : TRUE
                                user2 == [existingUser EXCEPT !.name = body.name]
                                cred2 == [existingCredential EXCEPT
                                             !.password = hashSync(body.password),
                                             !.verifyCode = verifyCode]
                                userErr == IF fail = 1 THEN DatabaseError
                                           ELSE UserPreSave(db, user2)
                                credErr == IF fail = 2 THEN DatabaseError
                                           ELSE CredentialPreSave(db, cred2)
                                d1 == IF userErr = NoError
                                      THEN Replace(db, "users", existingUser, user2)
                                      ELSE db
                                d2 == IF credErr = NoError
                                      THEN Replace(d1, "credentials",
                                                   existingCredential, cred2)
                                      ELSE d1
                            IN  /\ db' = d2
                                /\ issued' = Append(issued,
                                       Issue(verifyCode, existingUser.id,
                                             credErr = NoError))
                                /\ resp' = IF userErr # NoError THEN R(500, userErr)
                                           ELSE IF credErr # NoError THEN R(500, credErr)
                                           ELSE IF mailErr # NoError THEN R(500, mailErr)
                                           ELSE R(200, NoError)
           ELSE \* a new user: User.create, then Credential.create, no transaction
                LET role1 == CHOOSE r \in role : TRUE
                    newUser == [id |-> NewUserId(db), name |-> body.name,
                                email |-> body.email, roleId |-> role1.id,
                                status |-> "unverified"]
                    userErr == IF fail = 1 THEN DatabaseError
                               ELSE UserPreSave(db, newUser)
                    d1 == Insert(db, "users", newUser)
                    newCredential == [userId |-> newUser.id,
                                      password |-> hashSync(body.password),
                                      verifyCode |-> verifyCode, createdAt |-> now]
                    credErr == IF fail = 2 THEN DatabaseError
                               ELSE CredentialPreSave(d1, newCredential)
                IN  /\ Len(issued) < MaxCodes
                    /\ IF userErr # NoError
                       THEN /\ db' = db
                            /\ issued' = Append(issued, Issue(verifyCode, NoRef, FALSE))
                            /\ resp' = R(500, userErr)
                       ELSE IF credErr # NoError
                       THEN /\ db' = d1
                            /\ issued' = Append(issued,
                                   Issue(verifyCode, newUser.id, FALSE))
                            /\ resp' = R(500, credErr)
                       ELSE /\ db' = Insert(d1, "credentials", newCredential)
                            /\ issued' = Append(issued,
                                   Issue(verifyCode, newUser.id, TRUE))
                            /\ resp' = IF mailErr # NoError THEN R(500, mailErr)
                                       ELSE R(200, NoError)

\* a lookup that finds the Credential of the user a code was generated for,
\* whatever code that Credential holds now
FindByVerifyCode_EverIssued(d, verifyCode) ==
    {c \in d.credentials :
        \E i \in 1..Len(issued) :
            issued[i].code = verifyCode /\ issued[i].userId = c.userId}

\* Credential.findOne({verifyCode})
FindByVerifyCode(d, verifyCode) ==
    {c \in d.credentials : c.verifyCode = verifyCode}

\* credential.createdAt < new Date(Date.now() - 60 * 60 * 1000)
Expired(credential) == credential.createdAt < now - OneHour

\* the entries of issued with the code marked as used
MarkUsed(code) ==
    [i \in 1..Len(issued) |->
        IF issued[i].code = code THEN [issued[i] EXCEPT !.used = TRUE]
        ELSE issued[i]]

\* GET of the verify route; verifyCode "" is a request without the parameter
VerifyGET(verifyCode, fail) ==
    LET R(status, error, from, to) ==
            Resp("VerifyGET", verifyCode, status, error, from, to)
        found == FindByVerifyCode(db, verifyCode)
    IN  /\ prev' = db
        /\ UNCHANGED <<pending, saveLog, now>>
        /\ IF verifyCode = ""
           THEN /\ db' = db /\ issued' = issued
                /\ resp' = R(400, <<"Verification code is required.">>, NoRef, NoRef)
           ELSE IF found = {}
           THEN /\ db' = db /\ issued' = issued
                /\ resp' = R(400, <<"Invalid or expired verification link.">>,
                             NoRef, NoRef)
           ELSE LET credential == CHOOSE c \in found : TRUE
                    users == FindById(db, "users", credential.userId)
                IN  IF Expired(credential)
                    THEN /\ db' = db /\ issued' = issued
                         /\ resp' = R(400, <<"Verification link has expired.">>,
                                      credential.userId, NoRef)
                    ELSE IF users = {}
                    THEN /\ db' = db /\ issued' = issued
                         /\ resp' = R(400, <<"User not found.">>,
                                      credential.userId, NoRef)
                    ELSE LET user == CHOOSE u \in users : TRUE
                             user2 == [user EXCEPT !.status = "verified"]
                             cred2 == [credential EXCEPT !.verifyCode = Absent]
                             userErr == IF fail = 1 THEN DatabaseError
                                        ELSE UserPreSave(db, user2)
                             credErr == IF fail = 2 THEN DatabaseError
                                        ELSE CredentialPreSave(db, cred2)
                             d1 == IF userErr = NoError
                                   THEN Replace(db, "users", user, user2) ELSE db
                             d2 == IF credErr = NoError
                                   THEN Replace(d1, "credentials", credential, cred2)
                                   ELSE d1
                             ok == userErr = NoError /\ credErr = NoError
                         IN  /\ db' = d2
                             /\ issued' = IF ok THEN MarkUsed(verifyCode) ELSE issued
                             /\ resp' =
                                  IF userErr = DatabaseError \/
                                     (userErr = NoError /\ credErr = DatabaseError)
                                  THEN R(500, DatabaseError, user.id, user.status)
                                  ELSE IF userErr # NoError
                                  THEN R(400, userErr, user.id, user.status)
                                  ELSE IF credErr # NoError
                                  THEN R(400, credErr, user.id, "verified")
                                  ELSE R(200, NoError, user.id, "verified")

\* callbacks.signIn for a provider other than credentials: a user with the
\* e-mail is left as stored; an unknown e-mail gets a new user with status
\* verified and no Credential
signIn(email) ==
    LET existingUser == FindByEmail(db, email)
        defaultRole == {r \in db.roles : r.name = "hiringManager"}
        newUser == [id |-> NewUserId(db), name |-> email, email |-> email,
                    roleId |-> (CHOOSE r \in defaultRole : TRUE).id,
                    status |-> "verified"]
    IN  /\ prev' = db
        /\ UNCHANGED <<pending, saveLog, now, issued>>
        /\ IF existingUser # {}
           THEN /\ db' = db
                /\ resp' = Resp("signIn", email, 200, NoError, NoRef, NoRef)
           ELSE IF defaultRole = {}
           THEN /\ db' = db
                /\ resp' = Resp("signIn", email, 500, <<"Default role not found">>,
                                NoRef, NoRef)
           ELSE /\ db' = Insert(db, "users", newUser)
                /\ resp' = Resp("signIn", email, 200, NoError, NoRef, "verified")

\* an hour passes
Tick ==
    /\ now < MaxClock
    /\ now' = now + 1
    /\ UNCHANGED <<db, prev, resp, pending, saveLog, issued>>

\* SpecAccount: registrations, verifications and sign-ins as the clock runs
RegisterBodies ==
    {RegisterBody("Ann", e, p, "hiringManager") : e \in {"a@x", "b@x"}, p \in {"pw1"}}
        \cup {RegisterBody("Ann", NotAnEmail, "pw1", "hiringManager")}

VerifyCodes == {"", "c1", "c2"}

InitAccount ==
    /\ db = AccountSeedDB
    /\ prev = db
    /\ resp = NoResp
    /\ pending = {}
    /\ saveLog = <<>>
    /\ now = 0
    /\ issued = <<>>

NextAccount ==
    \/ \E body \in RegisterBodies, fail \in WriteFailures : RegisterPOST(body, fail)
    \/ \E verifyCode \in VerifyCodes, fail \in 0..2 : VerifyGET(verifyCode, fail)
    \/ \E email \in {"b@x"} : signIn(email)
    \/ Tick

SpecAccount == InitAccount /\ [][NextAccount]_vars

\* the code of entry i has been replaced: a later registration wrote another
\* code to the same user's Credential
Superseded(i) ==
    \E j \in (i + 1)..Len(issued) :
        issued[j].userId = issued[i].userId /\ issued[j].stored

IssuedAt(code) ==
    issued[CHOOSE i \in 1..Len(issued) : issued[i].code = code].at

\* C22: a verify request with a stored code, served with no write refused,
\* succeeds when it arrives within one hour of the moment the code was
\* generated and is answered "Verification link has expired." when it
\* arrives later, for a first code and for a re-issued one.
C22_CodeValidForOneHour ==
    [][\A verifyCode \in VerifyCodes :
          (VerifyGET(verifyCode, 0) /\ FindByVerifyCode(db, verifyCode) # {})
          => IF now <= IssuedAt(verifyCode) + OneHour
             THEN resp'.status = 200
             ELSE resp'.error = <<"Verification link has expired.">>]_vars

\* the users a registration request stored or updated
RegisteredUsers == {issued[i].userId : i \in 1..Len(issued)} \ {NoRef}

\* C26: after any registration request every User that registration created
\* has exactly one Credential.
C26_OneCredentialPerRegisteredUser ==
    \A u \in db.users :
        u.id \in RegisteredUsers => Cardinality(CredentialOf(db, u.id)) = 1

-----------------------------------------------------------------------------
\* Permissions of a role (PATCH of the roles/[roleId] route)

\* one role, which has edit_jobs
RoleSeedDB ==
    [EmptyDB EXCEPT !.roles = {[id |-> "r1", name |-> "admin"]},
                    !.rolePermissions = {[roleId |-> "r1", permission |-> "edit_jobs"]}]

\* the body: each of the two fields is NoArray when it is not an array, else
\* Array(the sequence of its elements)
PermissionsBody(permissionsToAdd, permissionsToRemove) ==
    [permissionsToAdd |-> permissionsToAdd,
     permissionsToRemove |-> permissionsToRemove]

Elements(seq) == {seq[i] : i \in 1..Len(seq)}

\* RolePermission.find({roleId}), as the set of permission names
PermissionsOf(d, roleId) ==
    {rp.permission : rp \in {x \in d.rolePermissions : x.roleId = roleId}}

\* RolePermissionSchema.pre("save"): the role must exist
RolePermissionPreSave(d, rolePermission) ==
    IF Exists(d, "roles", rolePermission.roleId) THEN NoError
    ELSE <<"Invalid roleId">>

\* most database writes one request issues: the write the database refuses is
\* counted from 1, 0 when none is refused
MaxWrites == 3

\* the loop over permissionsToAdd: findOne, and save when nothing is found.
\* st carries the database, the writes issued so far and the error thrown
RECURSIVE AddPermissions(_, _, _, _)
AddPermissions(st, perms, roleId, fail) ==
    IF perms = <<>> \/ st.error # NoError THEN st
    ELSE LET permission == Head(perms)
             rolePermission == [roleId |-> roleId, permission |-> permission]
             hookErr == RolePermissionPreSave(st.d, rolePermission)
             st2 == IF permission \in PermissionsOf(st.d, roleId) THEN st
                    ELSE IF st.n + 1 = fail
                    THEN [st EXCEPT !.n = @ + 1, !.error = DatabaseError]
                    ELSE IF hookErr # NoError
                    THEN [st EXCEPT !.n = @ + 1, !.error = hookErr]
                    ELSE [st EXCEPT !.n = @ + 1,
                                    !.d = Insert(@, "rolePermissions", rolePermission)]
         IN  AddPermissions(st2, Tail(perms), roleId, fail)

\* the loop over permissionsToRemove: findOneAndDelete
RECURSIVE RemovePermissions(_, _, _, _)
RemovePermissions(st, perms, roleId, fail) ==
    IF perms = <<>> \/ st.error # NoError THEN st
    ELSE LET permission == Head(perms)
             gone == {x \in st.d.rolePermissions :
                         x.roleId = roleId /\ x.permission = permission}
             st2 == IF st.n + 1 = fail
                    THEN [st EXCEPT !.n = @ + 1, !.error = DatabaseError]
                    ELSE [st EXCEPT !.n = @ + 1,
                                    !.d = DeleteWhere(@, "rolePermissions", gone)]
         IN  RemovePermissions(st2, Tail(perms), roleId, fail)

RolePATCH(roleId, body, fail) ==
    LET R(status, error) ==
            RespDoc("RolePATCH", roleId, status, error, NoRef, NoRef, body)
        add == body.permissionsToAdd[1]
        remove == body.permissionsToRemove[1]
        s1 == AddPermissions([d |-> db, n |-> 0, error |-> NoError], add, roleId, fail)
        s2 == RemovePermissions(s1, remove, roleId, fail)
    IN  /\ prev' = db
        /\ UNCHANGED <<pending, saveLog, now, issued>>
        /\ IF ~isValidObjectId(roleId)
           THEN db' = db /\ resp' = R(400, <<"Invalid roleId format">>)
           ELSE IF body.permissionsToAdd = NoArray \/ body.permissionsToRemove = NoArray
           THEN db' = db /\ resp' = R(400, <<"must be arrays">>)
           ELSE IF ~(Elements(add) \subseteq Permission)
           THEN db' = db /\ resp' = R(400, <<"Invalid permissions to add">>)
           ELSE IF ~(Elements(remove) \subseteq Permission)
           THEN db' = db /\ resp' = R(400, <<"Invalid permissions to remove">>)
           ELSE IF Elements(add) \cap Elements(remove) # {}
           THEN db' = db
                /\ resp' = R(400, <<"Permissions cannot be both added and removed">>)
           ELSE IF ~Exists(db, "roles", roleId)
           THEN db' = db /\ resp' = R(404, <<"Role not found">>)
           ELSE /\ db' = s2.d
                /\ resp' = IF s2.error # NoError THEN R(500, s2.error)
                           ELSE R(200, NoError)

\* SpecRole: permission updates of role r1
PermissionLists ==
    {NoArray, Array(<<>>), Array(<<"edit_jobs">>), Array(<<"view_reports">>),
     Array(<<"view_reports", "manage_teams">>), Array(<<"owner">>)}

RoleIds == {"r1", "r9", NotAnId}

InitRole ==
    /\ db = RoleSeedDB
    /\ prev = db
    /\ resp = NoResp
    /\ pending = {}
    /\ saveLog = <<>>
    /\ now = 0
    /\ issued = <<>>

NextRole ==
    \E roleId \in RoleIds, add \in PermissionLists, remove \in PermissionLists,
       fail \in 0..MaxWrites :
        RolePATCH(roleId, PermissionsBody(add, remove), fail)

SpecRole == InitRole /\ [][NextRole]_vars

\* C28: a role-permission PATCH is all-or-nothing: after an error response
\* the role has the permissions it had before the request; after a success
\* it has every permission of permissionsToAdd and none of
\* permissionsToRemove.
C28_PermissionPatchAllOrNothing ==
    resp.op = "RolePATCH"
    => /\ resp.status # 200
          => PermissionsOf(db, resp.target) = PermissionsOf(prev, resp.target)
       /\ resp.status = 200
          => /\ Elements(resp.doc.permissionsToAdd[1])
                    \subseteq PermissionsOf(db, resp.target)
             /\ Elements(resp.doc.permissionsToRemove[1])
                    \cap PermissionsOf(db, resp.target) = {}

====
